---- MODULE Spec2Model ----
(***************************************************************************)
(* Token-accounting pipeline of the accuracy benchmark:                    *)
(*   validate_tokens.py  (affix splitter, savings, median, verdict)        *)
(*   count_tokens.py     (summary table, data-only estimate)               *)
(*   generate_charts.py  (token-savings chart)                             *)
(* Python strings are sequences of one-character strings.  Python floats   *)
(* are exact rationals [num, den] with den > 0; a record with den = 0      *)
(* stands for a raised ZeroDivisionError.                                  *)
(***************************************************************************)
EXTENDS Integers, Sequences, FiniteSets, TLC

VARIABLES
    \* ---- validate_tokens.split_instruction_and_data ----
    spc,            \* "call" before the call, "returned" after it
    tl_prompt,      \* first argument
    json_prompt,    \* second argument
    split,          \* the locals and the returned triple
    \* ---- count_tokens.main ----
    cpc,            \* position in main: "locate", "generate", "discover",
                    \* "client", "count", "await" (inside a counting call),
                    \* "done", "exit_1", or the exception raised
    prompts_dir_arg, \* args.prompts_dir: "none", "missing" (given, not on
                    \* disk) or "present"
    credential,     \* the API key is in the environment
    temp_dir,       \* the mkdtemp directory: "none", "exists" or "removed"
    generated,      \* the dump-prompts subprocess has been run
    client,         \* "none", "ready", or "no_auth" (built without a key)
    calls,          \* the counting calls made: the file whose prompt was sent
                    \* and the outcome, "pending", "ok" or "failed"
    dir_files,      \* the *.txt files of the prompts directory
    prompt_files,   \* sorted(prompts_dir.glob("*.txt"))
    file_idx,       \* 1-based position of the counting loop in prompt_files
    results,        \* dict (task_id, fmt) -> tokens
    table,          \* the per-task rows of the summary table, as printed
    totals,         \* dict fmt -> summed tokens
    total_row,      \* the three percentages of the TOTAL row
    data_only,      \* the lines of the data-only estimate, as printed
    \* ---- validate_tokens.main ----
    vpc,            \* position in main: "tasks", "done", or the exception raised
    api_tokens,     \* dict task_id -> dict provider -> input_tokens
    task_idx,       \* 1-based position of the task loop in TASK_IDS
    vrows,          \* the per-task rows as printed
    vresults,       \* the list results
    vtotals,        \* total_tl_data_tokens, total_json_data_tokens, total_instruction_tokens
    report,         \* the totals row, the summary and the verdict
    \* ---- generate_charts.plot_token_savings ----
    gpc,            \* "plot" before the call, "done" after it, or the exception raised
    domain_data,    \* dict domain -> {"input_tokens": dict (provider, fmt) -> tokens}
    bars,           \* per savings group, the list savings over the domains
    avg_line,       \* avg, the mean of the TL savings
    \* ---- count_tokens.extract_prompt ----
    epc,            \* "call" before the call, "returned" after it
    file_text,      \* filepath.read_text(encoding="utf-8")
    prompt,         \* the returned string
    \* ---- validate_tokens.extract_prompt ----
    vepc,           \* "call" before the call, "returned" after it, or the
                    \* exception raised; the file is the one of file_text
    validate_prompt, \* the returned string
    \* ---- generate_charts.load_from_results_dir ----
    lpc,            \* "load" before the call, "done" after it, or the exception raised
    doc,            \* analysis.tl as its producer wrote it: the rows of each
                    \* section and the section markers, or NoDocument
    analysis_text,  \* text = analysis_path.read_text(encoding="utf-8")
    response_rows,  \* m.groups() of the matches in responses_section
    analysis_rows,  \* m.groups() of the matches in analysis_section
    domain_tokens,  \* dict domain -> dict (provider, fmt) -> summed input tokens
    domain_scores,  \* dict domain -> dict (provider, fmt) -> list of avg_score
    loaded,         \* the returned domain_data
    \* ---- validate_tokens.parse_api_tokens ----
    apc,            \* "parse" before the call, "done" after it
    api_doc,        \* analysis.tl as its producer wrote it: the rows of the
                    \* responses section and of a later section
    api_matches,    \* m.groups() of the matches in text
    parsed_tokens   \* the returned tokens

split_vars == <<spc, tl_prompt, json_prompt, split>>

count_vars == <<cpc, prompts_dir_arg, credential, temp_dir, generated, client,
                calls, dir_files, prompt_files, file_idx, results, table, totals,
                total_row, data_only>>

validate_vars == <<vpc, api_tokens, task_idx, vrows, vresults, vtotals, report>>

charts_vars == <<gpc, domain_data, bars, avg_line>>

extract_vars == <<epc, file_text, prompt, vepc, validate_prompt>>

load_vars == <<lpc, doc, analysis_text, response_rows, analysis_rows,
               domain_tokens, domain_scores, loaded>>

parse_vars == <<apc, api_doc, api_matches, parsed_tokens>>

vars == <<split_vars, count_vars, validate_vars, charts_vars, extract_vars,
          load_vars, parse_vars>>

\* What each component leaves alone.
not_split_vars == <<count_vars, validate_vars, charts_vars, extract_vars, load_vars,
     parse_vars>>

not_count_vars == <<split_vars, validate_vars, charts_vars, extract_vars, load_vars,
     parse_vars>>

not_validate_vars == <<split_vars, count_vars, charts_vars, extract_vars, load_vars,
     parse_vars>>

not_charts_vars == <<split_vars, count_vars, validate_vars, extract_vars, load_vars,
     parse_vars>>

not_extract_vars == <<split_vars, count_vars, validate_vars, charts_vars, load_vars,
     parse_vars>>

not_load_vars == <<split_vars, count_vars, validate_vars, charts_vars, extract_vars,
     parse_vars>>

not_parse_vars == <<split_vars, count_vars, validate_vars, charts_vars, extract_vars,
     load_vars>>

-----------------------------------------------------------------------------
(* Bounds *)

MaxLen == 3

\* Largest count the remote counter returns.
MaxTokens == 2

\* Largest per-domain token sum of the chart data.
MaxChartTokens == 1

Alphabet == {"a", "b"}

-----------------------------------------------------------------------------
(* Python built-ins *)

Min2(a, b) == IF a <= b THEN a ELSE b

Max2(a, b) == IF a >= b THEN a ELSE b

\* A slice bound as Python normalises it: negative bounds count from the
\* end, and every bound is clamped into 0..n.
SliceBound(i, n) == IF i < 0 THEN Max2(i + n, 0) ELSE Min2(i, n)

\* s[i:j]
PySlice(s, i, j) ==
    LET lo == SliceBound(i, Len(s))
        hi == SliceBound(j, Len(s))
    IN  IF lo >= hi THEN <<>> ELSE SubSeq(s, lo + 1, hi)

\* s[i:]
PySliceFrom(s, i) == PySlice(s, i, Len(s))

\* s[:j]
PySliceTo(s, j) == PySlice(s, 0, j)

\* reversed(s)
Reversed(s) == [i \in 1..Len(s) |-> s[Len(s) + 1 - i]]

\* d.get(key, default) for a dict modelled as a function.
Get(d, key, default) == IF key \in DOMAIN d THEN d[key] ELSE default

\* d[key] = value
Put(d, key, value) ==
    [k \in DOMAIN d \cup {key} |-> IF k = key THEN value ELSE d[k]]

EmptyDict == [k \in {} |-> 0]

RECURSIVE Gcd(_, _)
Gcd(a, b) == IF b = 0 THEN a ELSE Gcd(b, a % b)

Abs(a) == IF a < 0 THEN -a ELSE a

\* A float as the exact rational n/d in lowest terms, d > 0.
Rat(n, d) ==
    LET g == Gcd(Abs(n), Abs(d))
        sgn == IF d < 0 THEN -1 ELSE 1
    IN  [num |-> sgn * (n \div g), den |-> sgn * (d \div g)]

\* The outcome of an expression whose evaluation raised ZeroDivisionError.
ZeroDivisionError == [num |-> 0, den |-> 0]

Raised(r) == r.den = 0

\* The int n where a float is expected.
IntVal(n) == [num |-> n, den |-> 1]

\* a / b on ints
TrueDiv(a, b) == IF b = 0 THEN ZeroDivisionError ELSE Rat(a, b)

\* r * k, r - s, r + s, r / k on floats; an operand that raised propagates.
RatMul(r, k) == IF Raised(r) THEN r ELSE Rat(r.num * k, r.den)

RatSub(r, s) ==
    IF Raised(r) THEN r ELSE IF Raised(s) THEN s
    ELSE Rat(r.num * s.den - s.num * r.den, r.den * s.den)

RatAdd(r, s) ==
    IF Raised(r) THEN r ELSE IF Raised(s) THEN s
    ELSE Rat(r.num * s.den + s.num * r.den, r.den * s.den)

RatDiv(r, k) ==
    IF Raised(r) THEN r ELSE IF k = 0 THEN ZeroDivisionError
    ELSE Rat(r.num, r.den * k)

\* The outcome of an expression whose evaluation raised IndexError.
IndexError == [num |-> 1, den |-> 0]

\* The outcome of an expression whose evaluation raised ValueError.
ValueError == [num |-> 2, den |-> 0]

\* xs[i] on a list of floats: a negative index counts from the end, an index
\* outside the list raises IndexError.
ListIndex(xs, i) ==
    LET j == IF i < 0 THEN i + Len(xs) ELSE i
    IN  IF j >= 0 /\ j < Len(xs) THEN xs[j + 1] ELSE IndexError

\* The exception the first float of a sequence that raised stands for, in
\* evaluation order; "none" when every float was computed.
RECURSIVE FirstRaised(_)
FirstRaised(floats) ==
    IF floats = <<>> THEN "none"
    ELSE IF Head(floats) = ZeroDivisionError THEN "ZeroDivisionError"
    ELSE IF Head(floats) = IndexError THEN "IndexError"
    ELSE IF Head(floats) = ValueError THEN "ValueError"
    ELSE FirstRaised(Tail(floats))

\* r <= s on floats
RatLe(r, s) == r.num * s.den <= s.num * r.den

\* sum(f[x] for x in seq)
RECURSIVE SumOver(_, _)
SumOver(f, seq) ==
    IF seq = <<>> THEN 0 ELSE f[Head(seq)] + SumOver(f, Tail(seq))

\* sorted(xs) on a list of floats
RECURSIVE Sorted(_)
Sorted(xs) ==
    IF xs = <<>> THEN <<>>
    ELSE LET rest == Sorted(Tail(xs))
             before == SelectSeq(rest, LAMBDA r : ~RatLe(Head(xs), r))
             after  == SelectSeq(rest, LAMBDA r : RatLe(Head(xs), r))
         IN  before \o <<Head(xs)>> \o after

\* The elements of a sequence.
Range(seq) == {seq[i] : i \in 1..Len(seq)}

\* All strings over Alphabet of length at most n.
StringsUpTo(n) == UNION {[1..k -> Alphabet] : k \in 0..n}

\* The characters of a string literal, as a Python string of the model (a
\* tuple of one-character strings).
Chars(s) == <<>> \o [i \in 1..Len(s) |-> SubSeq(s, i, i)]

\* text.startswith(sub, i), i a 0-based position
StartsWithAt(text, sub, i) ==
    /\ i + Len(sub) <= Len(text)
    /\ \A k \in 1..Len(sub) : text[i + k] = sub[k]

\* text.find(sub): the lowest 0-based position where sub occurs, -1 if none
Find(text, sub) ==
    LET found == {i \in 0..Len(text) : StartsWithAt(text, sub, i)}
    IN  IF found = {} THEN -1
        ELSE CHOOSE i \in found : \A j \in found : i <= j

\* The ASCII letters, lower and upper case, in alphabetical order.
LowerCase == Chars("abcdefghijklmnopqrstuvwxyz")

UpperCase == Chars("ABCDEFGHIJKLMNOPQRSTUVWXYZ")

\* The position of character c in the sequence letters, 0 if it is not there.
IndexIn(letters, c) ==
    IF \E i \in 1..Len(letters) : letters[i] = c
    THEN CHOOSE i \in 1..Len(letters) : letters[i] = c
    ELSE 0

\* s.upper() and s.lower()
Upper(s) ==
    [i \in 1..Len(s) |->
        IF IndexIn(LowerCase, s[i]) > 0 THEN UpperCase[IndexIn(LowerCase, s[i])]
        ELSE s[i]]

Lower(s) ==
    [i \in 1..Len(s) |->
        IF IndexIn(UpperCase, s[i]) > 0 THEN LowerCase[IndexIn(UpperCase, s[i])]
        ELSE s[i]]

\* s.endswith(suffix)
EndsWith(s, suffix) ==
    /\ Len(suffix) <= Len(s)
    /\ SubSeq(s, Len(s) - Len(suffix) + 1, Len(s)) = suffix

\* s.removesuffix(suffix)
RemoveSuffix(s, suffix) ==
    IF suffix # <<>> /\ EndsWith(s, suffix)
    THEN SubSeq(s, 1, Len(s) - Len(suffix))
    ELSE s

\* The characters of file names and task IDs, in code point order.
CodePoints ==
    Chars("-.0123456789ABCDEFGHIJKLMNOPQRSTUVWXYZ_abcdefghijklmnopqrstuvwxyz")

\* a < b on strings: by the first position where they differ, a proper
\* prefix coming first.
StrLess(a, b) ==
    LET n == Min2(Len(a), Len(b))
        differ == {i \in 1..n : a[i] # b[i]}
    IN  IF differ = {} THEN Len(a) < Len(b)
        ELSE LET i == CHOOSE i \in differ : \A j \in differ : i <= j
             IN  IndexIn(CodePoints, a[i]) < IndexIn(CodePoints, b[i])

\* Variant: descending order.
SortedStrs_Descending(strs) ==
    [i \in 1..Cardinality(strs) |->
        CHOOSE x \in strs : Cardinality({y \in strs : StrLess(x, y)}) = i - 1]

\* sorted(strs) on a set of strings
SortedStrs(strs) ==
    [i \in 1..Cardinality(strs) |->
        CHOOSE x \in strs : Cardinality({y \in strs : StrLess(y, x)}) = i - 1]

\* text.lstrip(c) for a one-character c
LStrip(text, c) ==
    LET kept == {i \in 1..Len(text) : text[i] # c}
    IN  IF kept = {} THEN <<>>
        ELSE SubSeq(text, CHOOSE i \in kept : \A j \in kept : i <= j, Len(text))

-----------------------------------------------------------------------------
(* validate_tokens.split_instruction_and_data *)

\* n = 0
\* for a, b in zip(x, y):
\*     if a == b: n += 1
\*     else: break
\* zip stops at the shorter argument; the loop counts the positions before
\* the first one where the two differ.
ZipScan(x, y) ==
    LET zip_len  == Min2(Len(x), Len(y))
        differ   == {i \in 1..zip_len : x[i] # y[i]}
    IN  IF differ = {} THEN zip_len
        ELSE (CHOOSE i \in differ : \A j \in differ : i <= j) - 1

\* Variant: the prefix scan does not stop at the first difference and counts
\* every position where the two agree.
CommonPrefixLen_NoBreak(a, b) ==
    Cardinality({i \in 1..Min2(Len(a), Len(b)) : a[i] = b[i]})

CommonPrefixLen(a, b) == ZipScan(a, b)

\* Variant: the suffix scan runs over the strings as they are, not reversed.
CommonSuffixLen_Forward(a, b) == ZipScan(a, b)

CommonSuffixLen(a, b) == ZipScan(Reversed(a), Reversed(b))

\* Variant: the suffix length is left as scanned.
OverlapGuard_None(prefix_len, suffix_len, a, b) == suffix_len

\* if prefix_len + suffix_len > min(len(a), len(b)):
\*     suffix_len = min(len(a), len(b)) - prefix_len
OverlapGuard(prefix_len, suffix_len, a, b) ==
    IF prefix_len + suffix_len > Min2(Len(a), Len(b))
    THEN Min2(Len(a), Len(b)) - prefix_len
    ELSE suffix_len

\* Variant: x[prefix_len:-suffix_len] whatever suffix_len is.
DataSlice_NegIndex(x, prefix_len, suffix_len) == PySlice(x, prefix_len, -suffix_len)

\* x[prefix_len:len(x) - suffix_len] if suffix_len > 0 else x[prefix_len:]
DataSlice(x, prefix_len, suffix_len) ==
    IF suffix_len > 0
    THEN PySlice(x, prefix_len, Len(x) - suffix_len)
    ELSE PySliceFrom(x, prefix_len)

\* Variant: tl_prompt[-suffix_len:] whatever suffix_len is.
InstructionSuffix_NegIndex(x, suffix_len) == PySliceFrom(x, -suffix_len)

\* tl_prompt[len(tl_prompt) - suffix_len:] if suffix_len > 0 else ""
InstructionSuffix(x, suffix_len) ==
    IF suffix_len > 0 THEN PySliceFrom(x, Len(x) - suffix_len) ELSE <<>>

split_instruction_and_data(a, b) ==
    LET prefix_len  == CommonPrefixLen(a, b)
        raw_suffix  == CommonSuffixLen(a, b)
        suffix_len  == OverlapGuard(prefix_len, raw_suffix, a, b)
        instruction_prefix == PySliceTo(a, prefix_len)
        instruction_suffix == InstructionSuffix(a, suffix_len)
    IN  [prefix_len  |-> prefix_len,
         raw_suffix  |-> raw_suffix,
         suffix_len  |-> suffix_len,
         instruction |-> instruction_prefix \o instruction_suffix,
         tl_data     |-> DataSlice(a, prefix_len, suffix_len),
         json_data   |-> DataSlice(b, prefix_len, suffix_len)]

NoSplit == [prefix_len |-> 0, raw_suffix |-> 0, suffix_len |-> 0,
            instruction |-> <<>>, tl_data |-> <<>>, json_data |-> <<>>]

\* The FIN-001 example scenario: a 600-character instruction prefix, the
\* data payload (n copies of one character), a 50-character suffix.
ScenarioPrefix == [i \in 1..600 |-> IF i % 2 = 0 THEN "a" ELSE "b"]

ScenarioSuffix == [i \in 1..50 |-> IF i % 3 = 0 THEN "a" ELSE "b"]

ScenarioPrompt(c, n) == ScenarioPrefix \o [i \in 1..n |-> c] \o ScenarioSuffix

\* The compact prompt has 800 characters and the JSON prompt 1400.
ScenarioPairs ==
    {<<ScenarioPrompt(x, 150), ScenarioPrompt(y, 750)>> : x \in Alphabet, y \in Alphabet}

SplitIdle ==
    /\ spc = "idle"
    /\ split = NoSplit
    /\ tl_prompt = <<>>
    /\ json_prompt = <<>>

SplitInit ==
    /\ spc = "call"
    /\ split = NoSplit
    /\ \/ /\ tl_prompt \in StringsUpTo(MaxLen)
          /\ json_prompt \in StringsUpTo(MaxLen)
       \/ \E p \in ScenarioPairs : tl_prompt = p[1] /\ json_prompt = p[2]

Split ==
    /\ spc = "call"
    /\ split' = split_instruction_and_data(tl_prompt, json_prompt)
    /\ spc' = "returned"
    /\ UNCHANGED <<tl_prompt, json_prompt>>
    /\ UNCHANGED not_split_vars

SplitNext == Split

-----------------------------------------------------------------------------
(* count_tokens.main *)

FORMATS == <<"tl", "json", "toon">>

\* The task IDs of the prompt files, in sorted order.
TaskOrder == <<Chars("FIN-001"), Chars("HR-001")>>

\* The name of the prompt file of a task and a format tag:
\* {task-id-lowercase}-{format}.txt
PromptFileName(task_id, tag) ==
    Lower(task_id) \o Chars("-") \o Chars(tag) \o Chars(".txt")

\* The *.txt files the prompts directory can hold: the prompt file of every
\* task and format, and a file whose tag is not a format.
AllPromptFiles ==
    {PromptFileName(t, f) : t \in Range(TaskOrder), f \in Range(FORMATS)}
    \cup {PromptFileName(TaskOrder[1], "xml")}

\* Variant: the task ID is left in the case of the file name.
parse_filename_NoUpper(filename) ==
    LET stem == RemoveSuffix(filename, Chars(".txt"))
        tags == SelectSeq(FORMATS, LAMBDA f : EndsWith(stem, Chars("-") \o Chars(f)))
    IN  IF tags # <<>>
        THEN <<SubSeq(stem, 1, Len(stem) - Len(Chars("-") \o Chars(Head(tags)))),
               Head(tags)>>
        ELSE <<stem, "unknown">>

\* stem = filename.removesuffix(".txt")
\* for fmt in FORMATS:
\*     if stem.endswith(f"-{fmt}"): return stem[:-len(suffix)].upper(), fmt
\* return stem.upper(), "unknown"
parse_filename(filename) ==
    LET stem == RemoveSuffix(filename, Chars(".txt"))
        tags == SelectSeq(FORMATS, LAMBDA f : EndsWith(stem, Chars("-") \o Chars(f)))
    IN  IF tags # <<>>
        THEN <<Upper(PySliceTo(stem, -Len(Chars("-") \o Chars(Head(tags))))),
               Head(tags)>>
        ELSE <<Upper(stem), "unknown">>

\* sorted(prompts_dir.glob("*.txt"))
SortedFiles(files) == SortedStrs(files)

\* sorted(set(t for t, _ in results))
SortedTaskIds(res) == SortedStrs({k[1] : k \in DOMAIN res})

\* Variant: the percentage without its zero test.
PctDiff_Unguarded(a, b) == RatMul(TrueDiv(a - b, b), 100)

\* ((a - b) / b * 100) if b else 0
PctDiff(a, b) == IF b # 0 THEN RatMul(TrueDiv(a - b, b), 100) ELSE IntVal(0)

\* One pass of the per-task loop of the summary table.
SummaryRow(res, task_id) ==
    LET json_tokens == Get(res, <<task_id, "json">>, 0)
        tl_tokens   == Get(res, <<task_id, "tl">>, 0)
        toon_tokens == Get(res, <<task_id, "toon">>, 0)
    IN  [task_id     |-> task_id,
         tokens      |-> [f \in Range(FORMATS) |-> Get(res, <<task_id, f>>, 0)],
         tl_pct      |-> PctDiff(tl_tokens, json_tokens),
         toon_pct    |-> PctDiff(toon_tokens, json_tokens),
         tl_toon_pct |-> PctDiff(tl_tokens, toon_tokens)]

\* totals[fmt] += tokens over the per-task loop
Totals(res, task_ids) ==
    [f \in Range(FORMATS) |->
        SumOver([t \in Range(task_ids) |-> Get(res, <<t, f>>, 0)], task_ids)]

\* The percentages of the TOTAL row.
TotalRow(tot) ==
    [tl_pct      |-> PctDiff(tot["tl"], tot["json"]),
     toon_pct    |-> PctDiff(tot["toon"], tot["json"]),
     tl_toon_pct |-> PctDiff(tot["tl"], tot["toon"])]

\* min(xs) over a non-empty sequence
RECURSIVE MinOf(_)
MinOf(xs) ==
    IF Len(xs) = 1 THEN xs[1] ELSE Min2(Head(xs), MinOf(Tail(xs)))

\* Variant: the minimum over the formats that were counted for the task.
MinPerTask_CountedOnly(res, task_id) ==
    MinOf(SelectSeq([i \in 1..Len(FORMATS) |-> Get(res, <<task_id, FORMATS[i]>>, -1)],
                    LAMBDA x : x >= 0))

\* min(results.get((task_id, f), 0) for f in FORMATS)
MinPerTask(res, task_id) ==
    MinOf([i \in 1..Len(FORMATS) |-> Get(res, <<task_id, FORMATS[i]>>, 0)])

\* sum(results.get((t, fmt), 0) - min_per_task[t] for t in task_ids)
DataTokens(res, task_ids, fmt) ==
    SumOver([t \in Range(task_ids) |->
                Get(res, <<t, fmt>>, 0) - MinPerTask(res, t)], task_ids)

\* The line printed for fmt, or no line when json_data is not positive.
DataOnlyLine(res, task_ids, fmt) ==
    LET fmt_data  == DataTokens(res, task_ids, fmt)
        json_data == DataTokens(res, task_ids, "json")
    IN  IF json_data > 0
        THEN << [fmt       |-> fmt,
                 pct       |-> RatMul(TrueDiv(fmt_data - json_data, json_data), 100),
                 fmt_data  |-> fmt_data,
                 json_data |-> json_data] >>
        ELSE <<>>

\* The data-only estimate block: the lines printed, in FORMATS order.
RECURSIVE DataOnlyLines(_, _, _)
DataOnlyLines(res, task_ids, fmts) ==
    IF fmts = <<>> THEN <<>>
    ELSE (IF Head(fmts) = "json" THEN <<>>
          ELSE DataOnlyLine(res, task_ids, Head(fmts)))
         \o DataOnlyLines(res, task_ids, Tail(fmts))

\* Variant: the block is printed as soon as one format has a positive total.
DataOnlyEstimate_AnyPositive(res, task_ids, tot) ==
    IF Len(FORMATS) > 1 /\ \E f \in Range(FORMATS) : tot[f] > 0
    THEN DataOnlyLines(res, task_ids, FORMATS)
    ELSE <<>>

DataOnlyEstimate(res, task_ids, tot) ==
    IF Len(FORMATS) > 1 /\ \A f \in Range(FORMATS) : tot[f] > 0
    THEN DataOnlyLines(res, task_ids, FORMATS)
    ELSE <<>>

NoTotals == [f \in Range(FORMATS) |-> 0]

\* The calls made, the one in progress ended with the given outcome.
Ended(made, outcome) == [made EXCEPT ![Len(made)].outcome = outcome]

NoTotalRow == [tl_pct |-> IntVal(0), toon_pct |-> IntVal(0), tl_toon_pct |-> IntVal(0)]

\* Some float of the summary could not be computed.
SummaryRaised(rows, trow, lines) ==
    \/ \E i \in 1..Len(rows) :
          Raised(rows[i].tl_pct) \/ Raised(rows[i].toon_pct) \/ Raised(rows[i].tl_toon_pct)
    \/ Raised(trow.tl_pct) \/ Raised(trow.toon_pct) \/ Raised(trow.tl_toon_pct)
    \/ \E i \in 1..Len(lines) : Raised(lines[i].pct)

CountIdle ==
    /\ cpc = "idle"
    /\ prompts_dir_arg = "none"
    /\ credential = FALSE
    /\ temp_dir = "none"
    /\ generated = FALSE
    /\ client = "none"
    /\ calls = <<>>
    /\ dir_files = {}
    /\ prompt_files = <<>>
    /\ file_idx = 1
    /\ results = EmptyDict
    /\ table = <<>>
    /\ totals = NoTotals
    /\ total_row = NoTotalRow
    /\ data_only = <<>>

\* The state after parse_args.  dir_files is what the prompts directory
\* holds when it is listed: nothing can be listed in a directory that is
\* not on disk.
CountInit ==
    /\ cpc = "locate"
    /\ prompts_dir_arg \in {"none", "missing", "present"}
    /\ credential \in BOOLEAN
    /\ temp_dir = "none"
    /\ generated = FALSE
    /\ client = "none"
    /\ calls = <<>>
    /\ dir_files \in SUBSET AllPromptFiles
    /\ prompts_dir_arg = "missing" => dir_files = {}
    /\ prompt_files = <<>>
    /\ file_idx = 1
    /\ results = EmptyDict
    /\ table = <<>>
    /\ totals = NoTotals
    /\ total_row = NoTotalRow
    /\ data_only = <<>>

\* if args.prompts_dir: ... if not prompts_dir.exists(): sys.exit(1)
\* else: prompts_dir = Path(tempfile.mkdtemp(prefix="benchmark-prompts-"))
Locate ==
    /\ cpc = "locate"
    /\ IF prompts_dir_arg = "none"
       THEN temp_dir' = "exists" /\ cpc' = "generate"
       ELSE /\ UNCHANGED temp_dir
            /\ cpc' = IF prompts_dir_arg = "missing" THEN "exit_1" ELSE "discover"
    /\ UNCHANGED <<prompts_dir_arg, credential, generated, client, calls, dir_files,
                   prompt_files, file_idx, results, table, totals, total_row,
                   data_only>>
    /\ UNCHANGED not_count_vars

\* generate_prompts(args.data_source, prompts_dir): the subprocess ends with
\* a return code; if result.returncode != 0: sys.exit(1)
GeneratePrompts ==
    /\ cpc = "generate"
    /\ generated' = TRUE
    /\ \E returncode \in {0, 1} :
          cpc' = IF returncode # 0 THEN "exit_1" ELSE "discover"
    /\ UNCHANGED <<prompts_dir_arg, credential, temp_dir, client, calls, dir_files,
                   prompt_files, file_idx, results, table, totals, total_row,
                   data_only>>
    /\ UNCHANGED not_count_vars

\* prompt_files = sorted(...); if not prompt_files: sys.exit(1)
Discover ==
    /\ cpc = "discover"
    /\ prompt_files' = SortedFiles(dir_files)
    /\ cpc' = IF SortedFiles(dir_files) = <<>> THEN "exit_1" ELSE "client"
    /\ UNCHANGED <<prompts_dir_arg, credential, temp_dir, generated, client, calls,
                   dir_files, file_idx, results, table, totals, total_row, data_only>>
    /\ UNCHANGED not_count_vars

\* client = anthropic.Anthropic(): with a key in the environment the client
\* is ready; without one the library either raises here or builds a client
\* whose requests cannot be authenticated.
CreateClient ==
    /\ cpc = "client"
    /\ IF credential
       THEN client' = "ready" /\ cpc' = "count"
       ELSE \/ client' = "none" /\ cpc' = "AuthError"
            \/ client' = "no_auth" /\ cpc' = "count"
    /\ UNCHANGED <<prompts_dir_arg, credential, temp_dir, generated, calls, dir_files,
                   prompt_files, file_idx, results, table, totals, total_row,
                   data_only>>
    /\ UNCHANGED not_count_vars

\* task_id, fmt = parse_filename(filepath.name)
\* if fmt == "unknown": continue
SkipUnknown ==
    /\ cpc = "count"
    /\ file_idx <= Len(prompt_files)
    /\ parse_filename(prompt_files[file_idx])[2] = "unknown"
    /\ file_idx' = file_idx + 1
    /\ UNCHANGED <<cpc, prompts_dir_arg, credential, temp_dir, generated, client,
                   calls, dir_files, prompt_files, results, table, totals,
                   total_row, data_only>>
    /\ UNCHANGED not_count_vars

\* prompt = extract_prompt(filepath); count_tokens(client, args.model, prompt)
\* sends the request and blocks until the response.
CallCounter ==
    /\ cpc = "count"
    /\ file_idx <= Len(prompt_files)
    /\ parse_filename(prompt_files[file_idx])[2] # "unknown"
    /\ calls' = Append(calls, [file |-> prompt_files[file_idx], outcome |-> "pending"])
    /\ cpc' = "await"
    /\ UNCHANGED <<prompts_dir_arg, credential, temp_dir, generated, client,
                   dir_files, prompt_files, file_idx, results, table, totals,
                   total_row, data_only>>
    /\ UNCHANGED not_count_vars

\* The response arrives: tokens = response.input_tokens;
\* results[(task_id, fmt)] = tokens, and the loop goes on.
CounterReturns ==
    /\ cpc = "await"
    /\ client = "ready"
    /\ \E tokens \in 0..MaxTokens :
          results' = Put(results, parse_filename(prompt_files[file_idx]), tokens)
    /\ calls' = Ended(calls, "ok")
    /\ file_idx' = file_idx + 1
    /\ cpc' = "count"
    /\ UNCHANGED <<prompts_dir_arg, credential, temp_dir, generated, client,
                   dir_files, prompt_files, table, totals, total_row, data_only>>
    /\ UNCHANGED not_count_vars

\* Variant: a failed call is recorded as a count of 0 and the loop goes on.
CounterFails_ZeroFill ==
    /\ cpc = "await"
    /\ results' = Put(results, parse_filename(prompt_files[file_idx]), 0)
    /\ calls' = Ended(calls, "failed")
    /\ file_idx' = file_idx + 1
    /\ cpc' = "count"
    /\ UNCHANGED <<prompts_dir_arg, credential, temp_dir, generated, client,
                   dir_files, prompt_files, table, totals, total_row, data_only>>
    /\ UNCHANGED not_count_vars

\* The call raises (network, quota; always when the client has no key);
\* nothing in main catches it.
CounterFails ==
    /\ cpc = "await"
    /\ cpc' = IF client = "no_auth" THEN "AuthError" ELSE "APIError"
    /\ calls' = Ended(calls, "failed")
    /\ UNCHANGED <<prompts_dir_arg, credential, temp_dir, generated, client,
                   dir_files, prompt_files, file_idx, results, table, totals,
                   total_row, data_only>>
    /\ UNCHANGED not_count_vars

\* The rest of main after the counting loop: the summary table, the TOTAL
\* row, the data-only estimate and the line naming the prompts directory.
Summarize ==
    /\ cpc = "count"
    /\ file_idx > Len(prompt_files)
    /\ LET task_ids == SortedTaskIds(results)
           rows     == [i \in 1..Len(task_ids) |-> SummaryRow(results, task_ids[i])]
           tot      == Totals(results, task_ids)
           trow     == TotalRow(tot)
           lines    == DataOnlyEstimate(results, task_ids, tot)
       IN  IF task_ids = <<>>
           THEN /\ cpc' = "done"
                /\ UNCHANGED <<table, totals, total_row, data_only>>
           ELSE IF SummaryRaised(rows, trow, lines)
           THEN /\ cpc' = "ZeroDivisionError"
                /\ UNCHANGED <<table, totals, total_row, data_only>>
           ELSE /\ cpc' = "done"
                /\ table' = rows
                /\ totals' = tot
                /\ total_row' = trow
                /\ data_only' = lines
    /\ UNCHANGED <<prompts_dir_arg, credential, temp_dir, generated, client, calls,
                   dir_files, prompt_files, file_idx, results>>
    /\ UNCHANGED not_count_vars

CountNext ==
    \/ Locate
    \/ GeneratePrompts
    \/ Discover
    \/ CreateClient
    \/ SkipUnknown
    \/ CallCounter
    \/ CounterReturns
    \/ CounterFails
    \/ Summarize

-----------------------------------------------------------------------------
(* validate_tokens.main *)

\* The task list, cut to its first three entries.
TASK_IDS == <<"FIN-001", "FIN-002", "RET-001">>

\* What the local tokenizer can measure for one task: the token counts of the
\* TL prompt, the JSON prompt, the instruction text and the two data parts.
TlTokenVals == {100, 101, 106}

JsonTokenVals == {200}

InstructionTokenVals == {10}

\* (tl_data_tokens, json_data_tokens)
DataTokenPairs == {<<0, 0>>, <<1, 2>>, <<2, 4>>, <<90, 100>>}

Measurements ==
    {[tl_tokens |-> a, json_tokens |-> b, instruction_tokens |-> c,
      tl_data_tokens |-> d[1], json_data_tokens |-> d[2]] :
        a \in TlTokenVals, b \in JsonTokenVals, c \in InstructionTokenVals,
        d \in DataTokenPairs}

\* The input-token counts the results document reports for a row.
ApiInputVals == {100}

\* The dicts parse_api_tokens can return for the tasks of TASK_IDS: per task
\* no row, a row of provider openai, or a row of provider anthropic.
ApiTokenDicts ==
    {[t \in {u \in Range(TASK_IDS) : c[u] # "none"} |-> [p \in {c[t]} |-> v]] :
        c \in [Range(TASK_IDS) -> {"none", "openai", "anthropic"}],
        v \in ApiInputVals}

\* (1 - x / y) * 100 if y > 0 else 0
SavingsPct(x, y) ==
    IF y > 0 THEN RatMul(RatSub(IntVal(1), TrueDiv(x, y)), 100) ELSE IntVal(0)

\* task_id in api_tokens and "openai" in api_tokens[task_id]
HasOpenAI(api, task_id) ==
    task_id \in DOMAIN api /\ "openai" \in DOMAIN api[task_id]

\* (diff / api_input * 100) if api_input > 0 else 0
DiffPct(diff, api_input) ==
    IF api_input > 0 THEN RatMul(TrueDiv(diff, api_input), 100) ELSE IntVal(0)

\* The API columns of a task row: none, or api_input, diff and diff_pct.
ApiColumns(api, task_id, tl_tokens) ==
    IF HasOpenAI(api, task_id)
    THEN << [api_input |-> api[task_id]["openai"],
             diff      |-> tl_tokens - api[task_id]["openai"],
             diff_pct  |-> DiffPct(tl_tokens - api[task_id]["openai"],
                                   api[task_id]["openai"])] >>
    ELSE <<>>

\* Variant: total = x in place of total += x.
Accumulate_Overwrite(total, x) == x

\* total += x
Accumulate(total, x) == total + x

\* sum(r[field] for r in results)
RECURSIVE SumField(_, _)
SumField(res, field) ==
    IF res = <<>> THEN 0 ELSE Head(res)[field] + SumField(Tail(res), field)

\* sum(api_tokens.get(t, {}).get("openai", 0) for t in TASK_IDS)
ApiTotal(api) ==
    SumOver([t \in Range(TASK_IDS) |->
                IF t \in DOMAIN api THEN Get(api[t], "openai", 0) ELSE 0], TASK_IDS)

\* Variant: the upper middle value whatever the parity of n.
MedianOf_UpperMiddle(values) == ListIndex(values, Len(values) \div 2)

\* The median of a sorted list:
\* (v[n // 2 - 1] + v[n // 2]) / 2 if n % 2 == 0 else v[n // 2]
MedianOf(values) ==
    LET n == Len(values)
    IN  IF n % 2 = 0
        THEN RatDiv(RatAdd(ListIndex(values, n \div 2 - 1),
                           ListIndex(values, n \div 2)), 2)
        ELSE ListIndex(values, n \div 2)

\* The per-task API differences of the tasks that have a positive openai count.
RECURSIVE ApiDiffs(_, _)
ApiDiffs(res, api) ==
    IF res = <<>> THEN <<>>
    ELSE LET r == Head(res)
         IN  (IF HasOpenAI(api, r.task_id) /\ api[r.task_id]["openai"] > 0
              THEN <<RatMul(TrueDiv(r.tl_tokens - api[r.task_id]["openai"],
                                    api[r.task_id]["openai"]), 100)>>
              ELSE <<>>)
             \o ApiDiffs(Tail(res), api)

\* median_api_diff: none (None) or the median of the sorted differences.
MedianApiDiff(res, api) ==
    LET api_diffs == Sorted(ApiDiffs(res, api))
    IN  IF api_diffs # <<>> THEN <<MedianOf(api_diffs)>> ELSE <<>>

\* abs(total_tl - api_total) / api_total * 100 if api_total > 0 else 0
AggregateDiffPct(total_tl, api_total) ==
    IF api_total > 0
    THEN RatMul(TrueDiv(Abs(total_tl - api_total), api_total), 100)
    ELSE IntVal(0)

\* Variant: the thresholds compared with < in place of <=.
Verdict_Strict(diff_pct) ==
    IF ~RatLe(IntVal(1), diff_pct) THEN "PASS"
    ELSE IF ~RatLe(IntVal(5), diff_pct) THEN "MARGINAL"
    ELSE "FAIL"

\* if diff_pct <= 1.0: PASS; elif diff_pct <= 5.0: MARGINAL; else: FAIL
Verdict(diff_pct) ==
    IF RatLe(diff_pct, IntVal(1)) THEN "PASS"
    ELSE IF RatLe(diff_pct, IntVal(5)) THEN "MARGINAL"
    ELSE "FAIL"

NoVTotals == [tl_data |-> 0, json_data |-> 0, instruction |-> 0]

NoReport ==
    [total_data_savings  |-> IntVal(0),
     total_tl            |-> 0,
     total_json          |-> 0,
     total_input_savings |-> IntVal(0),
     median_savings      |-> IntVal(0),
     median_api_diff     |-> <<>>,
     api_total           |-> 0,
     diff_pct            |-> IntVal(0),
     verdict             |-> "none"]

ValidateIdle ==
    /\ vpc = "idle"
    /\ api_tokens = EmptyDict
    /\ task_idx = 1
    /\ vrows = <<>>
    /\ vresults = <<>>
    /\ vtotals = NoVTotals
    /\ report = NoReport

\* The state when the task loop starts: api_tokens is {} when there is no
\* analysis.tl, and what parse_api_tokens returned otherwise.
ValidateInit ==
    /\ vpc = "tasks"
    /\ api_tokens \in ApiTokenDicts
    /\ task_idx = 1
    /\ vrows = <<>>
    /\ vresults = <<>>
    /\ vtotals = NoVTotals
    /\ report = NoReport

\* if not tl_file.exists() or not json_file.exists(): print MISSING; continue
SkipMissing ==
    /\ vpc = "tasks"
    /\ task_idx <= Len(TASK_IDS)
    /\ vrows' = Append(vrows, [task_id |-> TASK_IDS[task_idx], missing |-> TRUE,
                               data_savings_pct |-> IntVal(0), api |-> <<>>])
    /\ task_idx' = task_idx + 1
    /\ UNCHANGED <<vpc, api_tokens, vresults, vtotals, report>>
    /\ UNCHANGED not_validate_vars

\* One pass of the task loop for a task whose two prompt files exist.
ProcessTask ==
    /\ vpc = "tasks"
    /\ task_idx <= Len(TASK_IDS)
    /\ \E m \in Measurements :
          LET task_id == TASK_IDS[task_idx]
              data_savings_pct == SavingsPct(m.tl_data_tokens, m.json_data_tokens)
              api_columns == ApiColumns(api_tokens, task_id, m.tl_tokens)
              raised == FirstRaised(<<data_savings_pct>>
                            \o [i \in 1..Len(api_columns) |-> api_columns[i].diff_pct])
          IN  IF raised # "none"
              THEN /\ vpc' = raised
                   /\ UNCHANGED <<task_idx, vrows, vresults, vtotals>>
              ELSE
              /\ vtotals' =
                    [tl_data     |-> Accumulate(vtotals.tl_data, m.tl_data_tokens),
                     json_data   |-> Accumulate(vtotals.json_data, m.json_data_tokens),
                     instruction |-> Accumulate(vtotals.instruction, m.instruction_tokens)]
              /\ vrows' = Append(vrows,
                    [task_id |-> task_id, missing |-> FALSE,
                     data_savings_pct |-> data_savings_pct,
                     api |-> api_columns])
              /\ vresults' = Append(vresults,
                    [task_id            |-> task_id,
                     tl_tokens          |-> m.tl_tokens,
                     json_tokens        |-> m.json_tokens,
                     instruction_tokens |-> m.instruction_tokens,
                     tl_data_tokens     |-> m.tl_data_tokens,
                     json_data_tokens   |-> m.json_data_tokens,
                     data_savings_pct   |-> data_savings_pct])
              /\ task_idx' = task_idx + 1
              /\ UNCHANGED vpc
    /\ UNCHANGED <<api_tokens, report>>
    /\ UNCHANGED not_validate_vars

\* The rest of main after the task loop: the totals row, the two medians,
\* the summary and the verdict.
Report ==
    /\ vpc = "tasks"
    /\ task_idx > Len(TASK_IDS)
    /\ LET has_api             == api_tokens # EmptyDict
           total_data_savings  == SavingsPct(vtotals.tl_data, vtotals.json_data)
           total_tl            == SumField(vresults, "tl_tokens")
           total_json          == SumField(vresults, "json_tokens")
           total_input_savings == SavingsPct(total_tl, total_json)
           api_total           == ApiTotal(api_tokens)
           row_diff_pct        == DiffPct(total_tl - api_total, api_total)
           savings_values      ==
               Sorted([i \in 1..Len(vresults) |-> vresults[i].data_savings_pct])
           median_savings      == MedianOf(savings_values)
           median_api_diff     == MedianApiDiff(vresults, api_tokens)
           diff_pct            == AggregateDiffPct(total_tl, api_total)
           raised ==
               FirstRaised(<<total_data_savings, total_input_savings>>
                           \o (IF has_api THEN <<row_diff_pct>> ELSE <<>>)
                           \o <<median_savings>>
                           \o median_api_diff
                           \o (IF has_api THEN <<diff_pct>> ELSE <<>>))
       IN  IF raised # "none"
           THEN /\ vpc' = raised
                /\ UNCHANGED report
           ELSE /\ vpc' = "done"
                /\ report' =
                      [total_data_savings  |-> total_data_savings,
                       total_tl            |-> total_tl,
                       total_json          |-> total_json,
                       total_input_savings |-> total_input_savings,
                       median_savings      |-> median_savings,
                       median_api_diff     |-> median_api_diff,
                       api_total           |-> IF has_api THEN api_total ELSE 0,
                       diff_pct            |-> IF has_api THEN diff_pct ELSE IntVal(0),
                       verdict             |-> IF has_api THEN Verdict(diff_pct)
                                               ELSE "none"]
    /\ UNCHANGED <<api_tokens, task_idx, vrows, vresults, vtotals>>
    /\ UNCHANGED not_validate_vars

ValidateNext == SkipMissing \/ ProcessTask \/ Report

-----------------------------------------------------------------------------
(* generate_charts.plot_token_savings *)

\* The domains of the chart data, in TASK_PREFIX_TO_DOMAIN order.
DomainOrder == <<"Finance", "Healthcare">>

Providers == {"anthropic", "openai"}

TokenKeys == {<<p, f>> : p \in Providers, f \in Range(FORMATS)}

\* The input_tokens dicts of a domain that has at least one responses row.
InputTokenDicts ==
    UNION {[keys -> 0..MaxChartTokens] : keys \in (SUBSET TokenKeys) \ {{}}}

\* The chart data: no domain, Finance alone, or Finance and a Healthcare
\* domain whose six sums are equal.
ChartDomainData ==
    {EmptyDict}
    \cup {[d \in {"Finance"} |-> [input_tokens |-> t]] : t \in InputTokenDicts}
    \cup {[d \in {"Finance", "Healthcare"} |->
              [input_tokens |-> IF d = "Finance" THEN t
                                ELSE [k \in TokenKeys |-> v]]] :
              t \in InputTokenDicts, v \in 0..MaxChartTokens}

\* (label, provider, fmt) of the four bars of a domain.
savings_groups ==
    << [label |-> "Anthropic TL", provider |-> "anthropic", fmt |-> "tl"],
       [label |-> "Anthropic TOON", provider |-> "anthropic", fmt |-> "toon"],
       [label |-> "OpenAI TL", provider |-> "openai", fmt |-> "tl"],
       [label |-> "OpenAI TOON", provider |-> "openai", fmt |-> "toon"] >>

\* list(domain_data.keys())
DomainList(data) == SelectSeq(DomainOrder, LAMBDA d : d \in DOMAIN data)

\* fmt_tokens = domain_data[domain]["input_tokens"].get((provider, fmt), 1)
\* json_tokens = domain_data[domain]["input_tokens"].get((provider, "json"), 1)
\* pct = (1 - fmt_tokens / json_tokens) * 100
TokenSavingsPct(data, domain, provider, fmt) ==
    LET fmt_tokens  == Get(data[domain].input_tokens, <<provider, fmt>>, 1)
        json_tokens == Get(data[domain].input_tokens, <<provider, "json">>, 1)
    IN  RatMul(RatSub(IntVal(1), TrueDiv(fmt_tokens, json_tokens)), 100)

\* The list savings of one savings group.
GroupSavings(data, group) ==
    LET domains == DomainList(data)
    IN  [i \in 1..Len(domains) |->
            TokenSavingsPct(data, domains[i], group.provider, group.fmt)]

\* all_savings: the TL savings of anthropic over the domains, then of openai.
AllSavings(data) ==
    LET domains == DomainList(data)
    IN  [i \in 1..Len(domains) |-> TokenSavingsPct(data, domains[i], "anthropic", "tl")]
        \o [i \in 1..Len(domains) |-> TokenSavingsPct(data, domains[i], "openai", "tl")]

\* The mean of an empty list, as numpy gives it.
NaN == [num |-> 0, den |-> -1]

RECURSIVE RatSum(_)
RatSum(floats) ==
    IF floats = <<>> THEN IntVal(0) ELSE RatAdd(Head(floats), RatSum(Tail(floats)))

\* np.mean(floats)
Mean(floats) ==
    IF floats = <<>> THEN NaN ELSE RatDiv(RatSum(floats), Len(floats))

\* The concatenation of a sequence of sequences.
RECURSIVE Flatten(_)
Flatten(seqs) == IF seqs = <<>> THEN <<>> ELSE Head(seqs) \o Flatten(Tail(seqs))

ChartsIdle ==
    /\ gpc = "idle"
    /\ domain_data = EmptyDict
    /\ bars = <<>>
    /\ avg_line = NaN

ChartsInit ==
    /\ gpc = "plot"
    /\ domain_data \in ChartDomainData
    /\ bars = <<>>
    /\ avg_line = NaN

\* plot_token_savings(domain_data, output_path)
PlotTokenSavings ==
    /\ gpc = "plot"
    /\ LET savings == [g \in 1..Len(savings_groups) |->
                          GroupSavings(domain_data, savings_groups[g])]
           all_savings == AllSavings(domain_data)
           raised == FirstRaised(Flatten(savings) \o all_savings)
       IN  IF raised # "none"
           THEN /\ gpc' = raised
                /\ UNCHANGED <<bars, avg_line>>
           ELSE /\ gpc' = "done"
                /\ bars' = savings
                /\ avg_line' = Mean(all_savings)
    /\ UNCHANGED domain_data
    /\ UNCHANGED not_charts_vars

ChartsNext == PlotTokenSavings

-----------------------------------------------------------------------------
(* generate_charts.load_from_results_dir: the row patterns *)

\* The character classes of the row patterns: \d, \w, \s, [\d.] and [^"].
Digits == Range(Chars("0123456789"))

WordChars == Range(LowerCase) \cup Range(UpperCase) \cup Digits \cup {"_"}

Whitespace == {" ", "\n", "\t", "\r"}

InClass(c, class) ==
    CASE class = "d"  -> c \in Digits
      [] class = "w"  -> c \in WordChars
      [] class = "s"  -> c \in Whitespace
      [] class = "d." -> c \in Digits \cup {"."}
      [] class = "^q" -> c # "\""

\* The items of a pattern: a literal, or a greedy run of one class with a
\* least length, captured as a group or not.  In the row patterns the
\* character after a run is never of the run's class, so the longest run is
\* the only one the rest of the pattern can follow.
Lit(str) == [kind |-> "lit", lit |-> Chars(str), class |-> "", min |-> 0, group |-> FALSE]

Run(class, min, group) ==
    [kind |-> "run", lit |-> <<>>, class |-> class, min |-> min, group |-> group]

\* r'\("([^"]+)",\s*"(\w+)",\s*"(\w+)",\s*"[^"]*",\s*(\d+)'
RESPONSES_ROW ==
    << Lit("(\""), Run("^q", 1, TRUE), Lit("\","), Run("s", 0, FALSE),
       Lit("\""), Run("w", 1, TRUE), Lit("\","), Run("s", 0, FALSE),
       Lit("\""), Run("w", 1, TRUE), Lit("\","), Run("s", 0, FALSE),
       Lit("\""), Run("^q", 0, FALSE), Lit("\","), Run("s", 0, FALSE),
       Run("d", 1, TRUE) >>

\* r'\("([^"]+)",\s*"(\w+)",\s*"(\w+)",\s*([\d.]+),\s*([\d.]+),\s*([\d.]+),\s*([\d.]+)\)'
ANALYSIS_ROW ==
    << Lit("(\""), Run("^q", 1, TRUE), Lit("\","), Run("s", 0, FALSE),
       Lit("\""), Run("w", 1, TRUE), Lit("\","), Run("s", 0, FALSE),
       Lit("\""), Run("w", 1, TRUE), Lit("\","), Run("s", 0, FALSE),
       Run("d.", 1, TRUE), Lit(","), Run("s", 0, FALSE),
       Run("d.", 1, TRUE), Lit(","), Run("s", 0, FALSE),
       Run("d.", 1, TRUE), Lit(","), Run("s", 0, FALSE),
       Run("d.", 1, TRUE), Lit(")") >>

\* The 0-based position where the run of class that starts at pos ends.
RECURSIVE RunEnd(_, _, _)
RunEnd(text, pos, class) ==
    IF pos < Len(text) /\ InClass(text[pos + 1], class)
    THEN RunEnd(text, pos + 1, class)
    ELSE pos

NoMatch == [ok |-> FALSE, end |-> 0, groups |-> <<>>]

\* pattern.match(text, pos): the items from the k-th on, at position pos.
RECURSIVE MatchFrom(_, _, _, _, _)
MatchFrom(text, pos, items, k, groups) ==
    IF k > Len(items) THEN [ok |-> TRUE, end |-> pos, groups |-> groups]
    ELSE IF items[k].kind = "lit"
    THEN IF StartsWithAt(text, items[k].lit, pos)
         THEN MatchFrom(text, pos + Len(items[k].lit), items, k + 1, groups)
         ELSE NoMatch
    ELSE LET run_end == RunEnd(text, pos, items[k].class)
         IN  IF run_end - pos < items[k].min THEN NoMatch
             ELSE MatchFrom(text, run_end, items, k + 1,
                            IF items[k].group
                            THEN Append(groups, PySlice(text, pos, run_end))
                            ELSE groups)

\* The scan of finditer from position pos, starts being the positions where
\* the pattern matches: the leftmost match at or after pos, then the scan
\* from its end.
RECURSIVE ScanMatches(_, _, _, _)
ScanMatches(text, items, starts, pos) ==
    LET ahead == {i \in starts : i >= pos}
    IN  IF ahead = {} THEN <<>>
        ELSE LET first == CHOOSE i \in ahead : \A j \in ahead : i <= j
                 m     == MatchFrom(text, first, items, 1, <<>>)
             IN  <<m.groups>> \o ScanMatches(text, items, starts, m.end)

\* [m.groups() for m in re.finditer(pattern, text)]: a match can only start
\* where the first character of the pattern's leading literal stands.
FindIter(text, items) ==
    ScanMatches(text, items,
                {i \in 0..Len(text) - 1 :
                    /\ items[1].kind = "lit" => text[i + 1] = items[1].lit[1]
                    /\ MatchFrom(text, i, items, 1, <<>>).ok}, 0)

\* int(s) for s of digits
RECURSIVE IntOf(_)
IntOf(s) ==
    IF s = <<>> THEN 0
    ELSE IntOf(SubSeq(s, 1, Len(s) - 1)) * 10 + (IndexIn(Chars("0123456789"), s[Len(s)]) - 1)

RECURSIVE Pow10(_)
Pow10(n) == IF n = 0 THEN 1 ELSE 10 * Pow10(n - 1)

\* float(s) for s of digits and dots: the decimal number, ValueError when s
\* has more than one dot or no digit.
FloatOf(s) ==
    LET dots   == {i \in 1..Len(s) : s[i] = "."}
        digits == SelectSeq(s, LAMBDA c : c # ".")
    IN  IF Cardinality(dots) > 1 \/ digits = <<>> THEN ValueError
        ELSE IF dots = {} THEN IntVal(IntOf(digits))
        ELSE Rat(IntOf(digits), Pow10(Len(s) - (CHOOSE i \in dots : TRUE)))

-----------------------------------------------------------------------------
(* generate_charts.load_from_results_dir *)

\* The most rows a document holds in its two sections together.
MaxRows == 2

TASK_PREFIX_TO_DOMAIN ==
    << <<Chars("FIN"), Chars("Finance")>>,
       <<Chars("HEALTH"), Chars("Healthcare")>>,
       <<Chars("HR"), Chars("HR / Labor")>>,
       <<Chars("LEGAL"), Chars("Legal")>>,
       <<Chars("TECH"), Chars("Technology")>>,
       <<Chars("RETAIL"), Chars("Retail")>>,
       <<Chars("RE"), Chars("Real Estate")>> >>

\* prefix = task_id.rsplit("-", 1)[0]
\* return TASK_PREFIX_TO_DOMAIN.get(prefix, prefix)
task_id_to_domain(task_id) ==
    LET dashes == {i \in 1..Len(task_id) : task_id[i] = "-"}
        prefix == IF dashes = {} THEN task_id
                  ELSE SubSeq(task_id, 1,
                              (CHOOSE i \in dashes : \A j \in dashes : j <= i) - 1)
        known  == {i \in 1..Len(TASK_PREFIX_TO_DOMAIN) :
                      TASK_PREFIX_TO_DOMAIN[i][1] = prefix}
    IN  IF known = {} THEN prefix
        ELSE TASK_PREFIX_TO_DOMAIN[CHOOSE i \in known : TRUE][2]

\* text[text.find(start):text.find(stop)]
Section(txt, start, stop) == PySlice(txt, Find(txt, Chars(start)), Find(txt, Chars(stop)))

\* The loop over the responses matches:
\* domain_tokens[domain][key] = domain_tokens[domain].get(key, 0) + int(input_tok)
RECURSIVE DomainTokens(_)
DomainTokens(rows) ==
    IF rows = <<>> THEN EmptyDict
    ELSE LET before == DomainTokens(SubSeq(rows, 1, Len(rows) - 1))
             row    == rows[Len(rows)]
             domain == task_id_to_domain(row[1])
             key    == <<row[2], row[3]>>
             tokens == Get(before, domain, EmptyDict)
         IN  Put(before, domain, Put(tokens, key, Get(tokens, key, 0) + IntOf(row[4])))

\* avg_score with the last score left out: range(4, 7).
AvgScore_ThreeScores(row) ==
    LET scores == [i \in 1..3 |-> FloatOf(row[3 + i])]
        raised == {i \in 1..3 : Raised(scores[i])}
    IN  IF raised # {} THEN scores[CHOOSE i \in raised : \A j \in raised : i <= j]
        ELSE RatDiv(RatAdd(RatAdd(RatAdd(IntVal(0), scores[1]), scores[2]),
                           scores[3]), Len(scores))

\* scores = [float(m.group(i)) for i in range(4, 8)]
\* avg_score = sum(scores) / len(scores)
AvgScore(row) ==
    LET scores == [i \in 1..4 |-> FloatOf(row[3 + i])]
        raised == {i \in 1..4 : Raised(scores[i])}
    IN  IF raised # {} THEN scores[CHOOSE i \in raised : \A j \in raised : i <= j]
        ELSE RatDiv(RatAdd(RatAdd(RatAdd(RatAdd(IntVal(0), scores[1]), scores[2]),
                                  scores[3]), scores[4]), Len(scores))

\* The loop over the analysis_results matches:
\* domain_scores[domain].setdefault(key, []).append(avg_score)
RECURSIVE DomainScores(_)
DomainScores(rows) ==
    IF rows = <<>> THEN EmptyDict
    ELSE LET before == DomainScores(SubSeq(rows, 1, Len(rows) - 1))
             row    == rows[Len(rows)]
             domain == task_id_to_domain(row[1])
             key    == <<row[2], row[3]>>
             scores == Get(before, domain, EmptyDict)
         IN  Put(before, domain, Put(scores, key, Append(Get(scores, key, <<>>), AvgScore(row))))

\* sum(score_list) / len(score_list)
RECURSIVE ScoreSum(_)
ScoreSum(score_list) ==
    IF score_list = <<>> THEN IntVal(0)
    ELSE RatAdd(ScoreSum(SubSeq(score_list, 1, Len(score_list) - 1)),
                score_list[Len(score_list)])

\* The per-domain data: for each domain of TASK_PREFIX_TO_DOMAIN that has
\* tokens, its mean accuracy per key and its input tokens per key.
DomainData(tokens_of, scores_of) ==
    LET table_domains == {TASK_PREFIX_TO_DOMAIN[i][2] : i \in 1..Len(TASK_PREFIX_TO_DOMAIN)}
    IN  [domain \in table_domains \cap DOMAIN tokens_of |->
            LET score_lists == Get(scores_of, domain, EmptyDict)
            IN  [accuracy |-> [key \in DOMAIN score_lists |->
                                  RatDiv(ScoreSum(score_lists[key]), Len(score_lists[key]))],
                 input_tokens |-> tokens_of[domain]]]

\* The rows a producer can write into the responses section, with the groups
\* a well-formed row is read as: two Finance rows, a row of a task outside
\* the prefix table, and a row whose task ID is not quoted.
ResponseRowKinds ==
    { [row |-> Chars("(\"FIN-001\", \"openai\", \"tl\", \"m\", 12, 3)"),
       wellformed |-> TRUE,
       fields |-> <<Chars("FIN-001"), Chars("openai"), Chars("tl"), Chars("12")>>],
      [row |-> Chars("(\"FIN-002\", \"openai\", \"tl\", \"m\", 5, 3)"),
       wellformed |-> TRUE,
       fields |-> <<Chars("FIN-002"), Chars("openai"), Chars("tl"), Chars("5")>>],
      [row |-> Chars("(\"MKT-001\", \"openai\", \"json\", \"m\", 7, 3)"),
       wellformed |-> TRUE,
       fields |-> <<Chars("MKT-001"), Chars("openai"), Chars("json"), Chars("7")>>],
      [row |-> Chars("(FIN-001, \"openai\", \"tl\", \"m\", 9, 3)"),
       wellformed |-> FALSE, fields |-> <<>>] }

\* The rows of the analysis_results section: two well-formed rows, a row of
\* six fields, a row with the number 0.9.5 and a row with the number "."
AnalysisRowKinds ==
    { [row |-> Chars("(\"FIN-001\", \"anthropic\", \"tl\", 0.95, 0.94, 0.96, 0.93)"),
       wellformed |-> TRUE,
       fields |-> <<Chars("FIN-001"), Chars("anthropic"), Chars("tl"),
                    Chars("0.95"), Chars("0.94"), Chars("0.96"), Chars("0.93")>>],
      [row |-> Chars("(\"FIN-001\", \"anthropic\", \"json\", 0.95, 0.95, 0.95, 0.94)"),
       wellformed |-> TRUE,
       fields |-> <<Chars("FIN-001"), Chars("anthropic"), Chars("json"),
                    Chars("0.95"), Chars("0.95"), Chars("0.95"), Chars("0.94")>>],
      [row |-> Chars("(\"FIN-001\", \"anthropic\", \"tl\", 0.9, 0.9, 0.9)"),
       wellformed |-> FALSE, fields |-> <<>>],
      [row |-> Chars("(\"FIN-001\", \"anthropic\", \"tl\", 0.9.5, 0.9, 0.9, 0.9)"),
       wellformed |-> FALSE, fields |-> <<>>],
      [row |-> Chars("(\"FIN-001\", \"anthropic\", \"tl\", ., 0.9, 0.9, 0.9)"),
       wellformed |-> FALSE, fields |-> <<>>] }

\* The rows that can stand under the "# Comparisons" heading: none, or one
\* row of the shape of an analysis_results row.
LaterRows == {<<>>} \cup {<<k>> : k \in {j \in AnalysisRowKinds : j.wellformed}}

\* The documents with nr responses rows and na analysis_results rows: the
\* responses section, the "# Analysis" heading or none, the
\* analysis_results section, the "# Comparisons" heading or none and, under
\* that heading, the rows of a later section.
DocumentsOf(nr, na) ==
    {[responses |-> r, analysis_heading |-> ah, analysis |-> a,
      comparisons_heading |-> ch, later |-> IF ch THEN l ELSE <<>>] :
        r \in [1..nr -> ResponseRowKinds], a \in [1..na -> AnalysisRowKinds],
        ah \in BOOLEAN, ch \in BOOLEAN, l \in LaterRows}

\* The documents of at most MaxRows rows.
ResultsDocuments ==
    UNION {DocumentsOf(n[1], n[2]) :
              n \in {m \in (0..MaxRows) \X (0..MaxRows) : m[1] + m[2] <= MaxRows}}

\* The lines of a document, and its text: the lines joined by newlines, the
\* last line ending the document.
DocLines(d) ==
    <<Chars("responses:")>> \o [i \in 1..Len(d.responses) |-> d.responses[i].row]
    \o (IF d.analysis_heading THEN <<Chars("# Analysis")>> ELSE <<>>)
    \o <<Chars("analysis_results:")>> \o [i \in 1..Len(d.analysis) |-> d.analysis[i].row]
    \o (IF d.comparisons_heading
        THEN <<Chars("# Comparisons"), Chars("comparisons:")>>
             \o [i \in 1..Len(d.later) |-> d.later[i].row]
        ELSE <<>>)

RECURSIVE JoinLines(_)
JoinLines(lines) ==
    IF Len(lines) = 1 THEN lines[1]
    ELSE lines[1] \o Chars("\n") \o JoinLines(Tail(lines))

DocText(d) == JoinLines(DocLines(d))

\* There is no analysis.tl in the results directory.
NoDocument == [on_disk |-> FALSE]

LoadIdle ==
    /\ lpc = "idle"
    /\ doc = NoDocument
    /\ analysis_text = <<>>
    /\ response_rows = <<>>
    /\ analysis_rows = <<>>
    /\ domain_tokens = EmptyDict
    /\ domain_scores = EmptyDict
    /\ loaded = EmptyDict

LoadInit ==
    /\ lpc = "load"
    /\ \/ doc = NoDocument
       \/ doc \in ResultsDocuments
    /\ analysis_text = <<>>
    /\ response_rows = <<>>
    /\ analysis_rows = <<>>
    /\ domain_tokens = EmptyDict
    /\ domain_scores = EmptyDict
    /\ loaded = EmptyDict

\* load_from_results_dir(results_dir)
LoadFromResultsDir ==
    /\ lpc = "load"
    /\ IF doc = NoDocument
       THEN /\ lpc' = "FileNotFoundError"
            /\ UNCHANGED <<analysis_text, response_rows, analysis_rows,
                           domain_tokens, domain_scores, loaded>>
       ELSE LET txt == DocText(doc)
                responses_section == Section(txt, "responses:", "# Analysis")
                analysis_section == Section(txt, "analysis_results:", "# Comparisons")
                responses == FindIter(responses_section, RESPONSES_ROW)
                analysis == FindIter(analysis_section, ANALYSIS_ROW)
                bad == {i \in 1..Len(analysis) : Raised(AvgScore(analysis[i]))}
                first_bad == CHOOSE i \in bad : \A j \in bad : i <= j
            IN  /\ analysis_text' = txt
                /\ response_rows' = responses
                /\ domain_tokens' = DomainTokens(responses)
                /\ IF bad # {}
                   THEN /\ lpc' = FirstRaised(<<AvgScore(analysis[first_bad])>>)
                        /\ analysis_rows' = SubSeq(analysis, 1, first_bad)
                        /\ domain_scores' = DomainScores(SubSeq(analysis, 1, first_bad - 1))
                        /\ UNCHANGED loaded
                   ELSE /\ lpc' = "done"
                        /\ analysis_rows' = analysis
                        /\ domain_scores' = DomainScores(analysis)
                        /\ loaded' = DomainData(DomainTokens(responses),
                                                 DomainScores(analysis))
    /\ UNCHANGED doc
    /\ UNCHANGED not_load_vars

LoadNext == LoadFromResultsDir

-----------------------------------------------------------------------------
(* validate_tokens.parse_api_tokens *)

\* The most rows the responses section of a document holds.
MaxApiRows == 2

\* r'\((\w+-\d+),\s*(\w+),\s*"[^"]+",\s*(\d+),\s*(\d+)'
API_ROW ==
    << Lit("("), Run("w", 1, TRUE), Lit("-"), Run("d", 1, TRUE), Lit(","),
       Run("s", 0, FALSE), Run("w", 1, TRUE), Lit(","), Run("s", 0, FALSE),
       Lit("\""), Run("^q", 1, FALSE), Lit("\","), Run("s", 0, FALSE),
       Run("d", 1, TRUE), Lit(","), Run("s", 0, FALSE), Run("d", 1, TRUE) >>

\* The rows a producer can write for a response, with the task, provider,
\* format and input tokens the row stands for: rows of the shape
\* (task_id, provider, model, input_tokens, output_tokens, ...) with the
\* format among the later columns, and a row of the shape
\* ("task_id", "provider", "format", "model", input_tokens, output_tokens).
ApiRowKinds ==
    { [row |-> Chars("(FIN-001, openai, \"m\", 100, 50, tl)"),
       task_id |-> Chars("FIN-001"), provider |-> Chars("openai"), fmt |-> "tl",
       input_tokens |-> 100],
      [row |-> Chars("(FIN-001, openai, \"m\", 106, 50, json)"),
       task_id |-> Chars("FIN-001"), provider |-> Chars("openai"), fmt |-> "json",
       input_tokens |-> 106],
      [row |-> Chars("(FIN-001, anthropic, \"m\", 101, 50, tl)"),
       task_id |-> Chars("FIN-001"), provider |-> Chars("anthropic"), fmt |-> "tl",
       input_tokens |-> 101],
      [row |-> Chars("(HR-001, openai, \"m\", 100, 50, tl)"),
       task_id |-> Chars("HR-001"), provider |-> Chars("openai"), fmt |-> "tl",
       input_tokens |-> 100],
      [row |-> Chars("(\"FIN-001\", \"openai\", \"tl\", \"m\", 100, 3)"),
       task_id |-> Chars("FIN-001"), provider |-> Chars("openai"), fmt |-> "tl",
       input_tokens |-> 100] }

\* The documents: the responses section with at most MaxApiRows rows and,
\* under the "# Analysis" heading, a later section with no row or one.
ApiDocuments ==
    {[responses |-> r, later |-> l] :
        r \in UNION {[1..n -> ApiRowKinds] : n \in 0..MaxApiRows},
        l \in {<<>>} \cup {<<k>> : k \in ApiRowKinds}}

ApiDocText(d) ==
    JoinLines(<<Chars("responses:")>>
              \o [i \in 1..Len(d.responses) |-> d.responses[i].row]
              \o <<Chars("# Analysis"), Chars("retries:")>>
              \o [i \in 1..Len(d.later) |-> d.later[i].row])

\* The loop over the matches:
\* if task_id not in tokens: tokens[task_id] = {}
\* tokens[task_id][provider] = input_tokens
RECURSIVE TokensOf(_)
TokensOf(matches) ==
    IF matches = <<>> THEN EmptyDict
    ELSE LET before   == TokensOf(SubSeq(matches, 1, Len(matches) - 1))
             m        == matches[Len(matches)]
             task_id  == m[1] \o Chars("-") \o m[2]
             provider == m[3]
         IN  Put(before, task_id,
                 Put(Get(before, task_id, EmptyDict), provider, IntOf(m[4])))

\* parse_api_tokens(analysis_path), on the text of the file
parse_api_tokens(text) == TokensOf(FindIter(text, API_ROW))

ParseIdle ==
    /\ apc = "idle"
    /\ api_doc = NoDocument
    /\ api_matches = <<>>
    /\ parsed_tokens = EmptyDict

ParseInit ==
    /\ apc = "parse"
    /\ api_doc \in ApiDocuments
    /\ api_matches = <<>>
    /\ parsed_tokens = EmptyDict

ParseApiTokens ==
    /\ apc = "parse"
    /\ apc' = "done"
    /\ api_matches' = FindIter(ApiDocText(api_doc), API_ROW)
    /\ parsed_tokens' = parse_api_tokens(ApiDocText(api_doc))
    /\ UNCHANGED api_doc
    /\ UNCHANGED not_parse_vars

ParseNext == ParseApiTokens

-----------------------------------------------------------------------------
(* count_tokens.extract_prompt *)

MaxHeaderLines == 2

MaxBlankLines == 2

\* marker = "=== PROMPT ==="
PROMPT_MARKER == Chars("=== PROMPT ===")

\* Variant: the fallback strips leading newlines as the marker branch does.
count_extract_prompt_StripFallback(text) ==
    LET idx == Find(text, PROMPT_MARKER)
    IN  IF idx = -1 THEN LStrip(text, "\n")
        ELSE LStrip(PySliceFrom(text, idx + Len(PROMPT_MARKER)), "\n")

\* idx = text.find(marker)
\* if idx == -1: return text
\* return text[idx + len(marker):].lstrip("\n")
count_extract_prompt(text) ==
    LET idx == Find(text, PROMPT_MARKER)
    IN  IF idx = -1 THEN text
        ELSE LStrip(PySliceFrom(text, idx + Len(PROMPT_MARKER)), "\n")

\* Lines a metadata header can hold: a key line, an empty line, a line cut
\* short of the marker, and a line that contains the marker after other text.
HeaderLines ==
    {Chars("k"), Chars(""), Chars("=== PROMPT =="), Chars("x=== PROMPT ===")}

Headers == UNION {[1..n -> HeaderLines] : n \in 0..MaxHeaderLines}

\* Prompt bodies; none starts with a newline.
Bodies == {Chars(""), Chars("a"), Chars("a\n"), Chars("a\n\nb")}

\* The lines of a header, each ended by a newline.
RECURSIVE HeaderText(_)
HeaderText(lines) ==
    IF lines = <<>> THEN <<>>
    ELSE Head(lines) \o Chars("\n") \o HeaderText(Tail(lines))

\* k newlines
Newlines(k) == [i \in 1..k |-> "\n"]

\* A dump-prompts file: the header, the marker line, k blank lines, the body.
PromptFileText(header, k, body) ==
    HeaderText(header) \o PROMPT_MARKER \o Chars("\n") \o Newlines(k) \o body

\* A file without the marker line: the header, then the body.
PlainFileText(header, body) == HeaderText(header) \o body

PromptFileTexts ==
    {PromptFileText(h, k, b) : h \in Headers, k \in 0..MaxBlankLines, b \in Bodies}
    \cup {PlainFileText(h, b) : h \in Headers, b \in Bodies}

ExtractIdle ==
    /\ epc = "idle"
    /\ file_text = <<>>
    /\ prompt = <<>>
    /\ vepc = "idle"
    /\ validate_prompt = <<>>

ExtractInit ==
    /\ epc = "call"
    /\ file_text \in PromptFileTexts
    /\ prompt = <<>>
    /\ vepc = "call"
    /\ validate_prompt = <<>>

ExtractPrompt ==
    /\ epc = "call"
    /\ prompt' = count_extract_prompt(file_text)
    /\ epc' = "returned"
    /\ UNCHANGED <<file_text, vepc, validate_prompt>>
    /\ UNCHANGED not_extract_vars

\* marker = "=== PROMPT ===\n\n" of validate_tokens.extract_prompt
VALIDATE_MARKER == Chars("=== PROMPT ===\n\n")

\* idx = text.find(marker)
\* if idx == -1: raise ValueError(...)
\* return text[idx + len(marker):]
\* The outcome is the one-element list of the returned string, or the empty
\* list when ValueError is raised.
validate_extract_prompt(text) ==
    LET idx == Find(text, VALIDATE_MARKER)
    IN  IF idx = -1 THEN <<>>
        ELSE <<PySliceFrom(text, idx + Len(VALIDATE_MARKER))>>

ValidateExtractPrompt ==
    /\ vepc = "call"
    /\ LET outcome == validate_extract_prompt(file_text)
       IN  IF outcome = <<>>
           THEN /\ vepc' = "ValueError"
                /\ UNCHANGED validate_prompt
           ELSE /\ vepc' = "returned"
                /\ validate_prompt' = outcome[1]
    /\ UNCHANGED <<epc, file_text, prompt>>
    /\ UNCHANGED not_extract_vars

ExtractNext == ExtractPrompt \/ ValidateExtractPrompt

-----------------------------------------------------------------------------
(* Specifications *)

InitSplit == SplitInit /\ CountIdle /\ ValidateIdle /\ ChartsIdle /\ ExtractIdle
    /\ LoadIdle /\ ParseIdle

SpecSplit == InitSplit /\ [][SplitNext]_vars

InitCount == CountInit /\ SplitIdle /\ ValidateIdle /\ ChartsIdle /\ ExtractIdle
    /\ LoadIdle /\ ParseIdle

SpecCount == InitCount /\ [][CountNext]_vars

InitValidate == ValidateInit /\ SplitIdle /\ CountIdle /\ ChartsIdle /\ ExtractIdle
    /\ LoadIdle /\ ParseIdle

SpecValidate == InitValidate /\ [][ValidateNext]_vars

InitCharts == ChartsInit /\ SplitIdle /\ CountIdle /\ ValidateIdle /\ ExtractIdle
    /\ LoadIdle /\ ParseIdle

SpecCharts == InitCharts /\ [][ChartsNext]_vars

InitExtract == ExtractInit /\ SplitIdle /\ CountIdle /\ ValidateIdle /\ ChartsIdle
    /\ LoadIdle /\ ParseIdle

SpecExtract == InitExtract /\ [][ExtractNext]_vars

InitLoad == LoadInit /\ SplitIdle /\ CountIdle /\ ValidateIdle /\ ChartsIdle
    /\ ExtractIdle /\ ParseIdle

SpecLoad == InitLoad /\ [][LoadNext]_vars

InitParse == ParseInit /\ SplitIdle /\ CountIdle /\ ValidateIdle /\ ChartsIdle
    /\ ExtractIdle /\ LoadIdle

SpecParse == InitParse /\ [][ParseNext]_vars

-----------------------------------------------------------------------------
(* Claims about split_instruction_and_data, checked under SpecSplit *)

\* The first n and the last n characters of s, for n in 0..Len(s).
FirstChars(s, n) == [i \in 1..n |-> s[i]]

LastChars(s, n) == [i \in 1..n |-> s[Len(s) - n + i]]

\* The lengths returned fit both prompts.
LengthsFit ==
    /\ split.prefix_len \in 0..Min2(Len(tl_prompt), Len(json_prompt))
    /\ split.suffix_len \in 0..Min2(Len(tl_prompt), Len(json_prompt))

\* C1: for all strings A and B the split is a lossless partition of both:
\* with prefix the first prefix_len and suffix the last suffix_len characters
\* of A, sharedText = prefix + suffix, prefix + dataA + suffix = A and
\* prefix + dataB + suffix = B.
C1_LosslessPartition ==
    spc = "returned" =>
        /\ LengthsFit
        /\ LET prefix == FirstChars(tl_prompt, split.prefix_len)
               suffix == LastChars(tl_prompt, split.suffix_len)
           IN  /\ split.instruction = prefix \o suffix
               /\ prefix \o split.tl_data \o suffix = tl_prompt
               /\ prefix \o split.json_data \o suffix = json_prompt

\* A split with a non-empty prefix, a non-empty suffix and two different,
\* non-empty data parts.
C1_Witness ==
    /\ spc = "returned"
    /\ split.prefix_len > 0
    /\ split.suffix_len > 0
    /\ split.tl_data # <<>>
    /\ split.json_data # <<>>
    /\ Len(split.tl_data) # Len(split.json_data)

\* C2: for all strings A and B (the empty ones included) the call returns,
\* and after the overlap guard 0 <= suffix_len and prefix_len + suffix_len
\* <= min(len(A), len(B)): no slice has negative length and the prefix and
\* suffix windows overlap in neither input.
C2_GuardBounds ==
    spc = "returned" =>
        /\ 0 <= split.prefix_len
        /\ 0 <= split.suffix_len
        /\ split.prefix_len + split.suffix_len
              <= Min2(Len(tl_prompt), Len(json_prompt))
        /\ split.prefix_len <= Len(tl_prompt) - split.suffix_len
        /\ split.prefix_len <= Len(json_prompt) - split.suffix_len
        /\ Len(split.tl_data)
              = Len(tl_prompt) - split.prefix_len - split.suffix_len
        /\ Len(split.json_data)
              = Len(json_prompt) - split.prefix_len - split.suffix_len

\* The overlap guard has reduced the scanned suffix length.
C2_Witness ==
    /\ spc = "returned"
    /\ split.raw_suffix > split.suffix_len
    /\ split.suffix_len > 0

\* C3: split(A, A) returns dataA = dataB = "" and sharedText = A.
C3_SelfSplit ==
    (spc = "returned" /\ tl_prompt = json_prompt) =>
        /\ split.tl_data = <<>>
        /\ split.json_data = <<>>
        /\ split.instruction = tl_prompt

C3_Witness ==
    /\ spc = "returned"
    /\ tl_prompt = json_prompt
    /\ Len(tl_prompt) >= 2
    /\ split.instruction = tl_prompt

\* The example scenario: an 800-character and a 1400-character prompt whose
\* longest common prefix is the 600-character instruction prefix and whose
\* longest common suffix is the 50-character suffix.
IsScenario ==
    \E x \in Alphabet, y \in Alphabet :
        /\ x # y
        /\ tl_prompt = ScenarioPrompt(x, 150)
        /\ json_prompt = ScenarioPrompt(y, 750)

\* C4 as stated: in the scenario dataA has length 200 and dataB length 750,
\* with len(dataA) + len(sharedText) = len(promptA).
C4_Original ==
    (spc = "returned" /\ IsScenario) =>
        /\ Len(split.tl_data) = 200
        /\ Len(split.json_data) = 750
        /\ Len(split.tl_data) + Len(split.instruction) = Len(tl_prompt)

\* C4 as amended: in the scenario dataA has length 150 (800 - 600 - 50) and
\* dataB length 750, with len(dataA) + len(sharedText) = len(promptA).
C4_ScenarioLengths ==
    (spc = "returned" /\ IsScenario) =>
        /\ Len(tl_prompt) = 800
        /\ Len(json_prompt) = 1400
        /\ split.prefix_len = 600
        /\ split.suffix_len = 50
        /\ Len(split.tl_data) = 150
        /\ Len(split.json_data) = 750
        /\ Len(split.tl_data) + Len(split.instruction) = Len(tl_prompt)

C4_Witness ==
    /\ spc = "returned"
    /\ IsScenario
    /\ Len(split.instruction) = 650

-----------------------------------------------------------------------------
(* Claims about count_tokens.main, checked under SpecCount *)

\* The count recorded for (t, f), 0 when none was.
CountOr0(t, f) == IF <<t, f>> \in DOMAIN results THEN results[<<t, f>>] ELSE 0

\* The sum of the counts of format f over all tasks.
FormatTotal(f) == SumOver([t \in Range(TaskOrder) |-> CountOr0(t, f)], TaskOrder)

\* p is (a - b) / b * 100 when b is not 0, and 0 when it is.
PctIs(p, a, b) ==
    IF b = 0 THEN p = IntVal(0)
    ELSE p.den > 0 /\ p.num * b = (a - b) * 100 * p.den

\* C5: every percentage difference of the summary table (TL vs JSON, TOON vs
\* JSON, TL vs TOON, per task and in the TOTAL row) is (a - b) / b * 100 when
\* the denominator b is not 0 and 0 when it is, a missing count being 0; no
\* division by zero is raised.
C5_PctZeroGuard ==
    /\ cpc # "ZeroDivisionError"
    /\ cpc = "done" =>
          /\ {table[i].task_id : i \in 1..Len(table)}
                = {k[1] : k \in DOMAIN results}
          /\ \A i \in 1..Len(table) :
                LET t    == table[i].task_id
                    tl   == CountOr0(t, "tl")
                    json == CountOr0(t, "json")
                    toon == CountOr0(t, "toon")
                IN  /\ PctIs(table[i].tl_pct, tl, json)
                    /\ PctIs(table[i].toon_pct, toon, json)
                    /\ PctIs(table[i].tl_toon_pct, tl, toon)
          /\ table # <<>> =>
                /\ PctIs(total_row.tl_pct, FormatTotal("tl"), FormatTotal("json"))
                /\ PctIs(total_row.toon_pct, FormatTotal("toon"), FormatTotal("json"))
                /\ PctIs(total_row.tl_toon_pct, FormatTotal("tl"), FormatTotal("toon"))

\* A table with a task whose JSON count is missing (percentage 0 against a
\* positive TL count) and a task whose TL vs JSON percentage is not 0.
C5_Witness ==
    /\ cpc = "done"
    /\ \E i \in 1..Len(table) :
          /\ <<table[i].task_id, "json">> \notin DOMAIN results
          /\ CountOr0(table[i].task_id, "tl") > 0
          /\ table[i].tl_pct = IntVal(0)
    /\ \E i \in 1..Len(table) : table[i].tl_pct.num < 0
    /\ total_row.tl_pct.num # 0

\* The minimum over all formats of the count of task t, a missing count being 0.
MinCount(t) ==
    CHOOSE m \in {CountOr0(t, f) : f \in Range(FORMATS)} :
        \A f \in Range(FORMATS) : m <= CountOr0(t, f)

\* The shared instruction overhead summed over all tasks.
Overhead == SumOver([t \in Range(TaskOrder) |-> MinCount(t)], TaskOrder)

\* C10: the data-only estimate takes for each task the minimum count across
\* all formats as the shared overhead, subtracts it from every format's
\* count, sums the remainders per format over all tasks, and compares each
\* non-JSON format's data-only total with the JSON one as a percentage
\* difference.
C10_DataOnlyEstimate ==
    cpc = "done" =>
        /\ \A i \in 1..Len(data_only) :
              /\ data_only[i].fmt \in {"tl", "toon"}
              /\ data_only[i].fmt_data = FormatTotal(data_only[i].fmt) - Overhead
              /\ data_only[i].json_data = FormatTotal("json") - Overhead
              /\ data_only[i].json_data # 0
              /\ PctIs(data_only[i].pct, data_only[i].fmt_data, data_only[i].json_data)
        /\ ((\A f \in Range(FORMATS) : FormatTotal(f) > 0)
              /\ FormatTotal("json") - Overhead > 0) =>
              /\ Len(data_only) = 2
              /\ data_only[1].fmt = "tl"
              /\ data_only[2].fmt = "toon"

\* An estimate with a positive overhead, a task that lacks a format, and
\* two different percentages.
C10_Witness ==
    /\ cpc = "done"
    /\ Len(data_only) = 2
    /\ Overhead > 0
    /\ \E t \in Range(TaskOrder), f \in Range(FORMATS) :
          /\ <<t, f>> \notin DOMAIN results
          /\ \E g \in Range(FORMATS) : <<t, g>> \in DOMAIN results
    /\ data_only[1].pct # data_only[2].pct
    /\ data_only[1].pct.num < 0

\* The endings "-tl.txt", "-json.txt" and "-toon.txt".
TaggedEndings == {Chars("-") \o Chars(f) \o Chars(".txt") : f \in Range(FORMATS)}

\* The last k characters of n are the string e.
EndsIn(n, e) ==
    /\ Len(e) <= Len(n)
    /\ \A i \in 1..Len(e) : n[Len(n) - Len(e) + i] = e[i]

\* The stem of file name n (n without its ".txt") ends with no format tag.
HasNoFormatTag(n) == \A e \in TaggedEndings : ~EndsIn(n, e)

\* Upper-case task IDs, two of them ending like a format tag, each with its
\* lower-case form.
SomeTaskIds ==
    {<<Chars("FIN-001"), Chars("fin-001")>>, <<Chars("HR-001"), Chars("hr-001")>>,
     <<Chars("A-TL"), Chars("a-tl")>>, <<Chars("X-JSON-TOON"), Chars("x-json-toon")>>}

\* (lower(T) + "-" + f + ".txt", T, f) for these task IDs and every format.
SomePromptFiles ==
    {<<T[2] \o Chars("-") \o Chars(f) \o Chars(".txt"), T[1], f>> :
        T \in SomeTaskIds, f \in Range(FORMATS)}

\* The files the counting loop has passed.
PassedFiles == {prompt_files[i] : i \in 1..Min2(file_idx - 1, Len(prompt_files))}

\* The files a counting call was made for.
CalledFiles == {calls[i].file : i \in 1..Len(calls)}

\* C13: for every upper-case task ID T and every format f of {tl, json,
\* toon}, parse_filename(lower(T) + "-" + f + ".txt") returns (T, f); for a
\* filename whose stem ends with none of the format tags it returns
\* (upper-cased stem, "unknown") without raising, and the main loop skips
\* that file: no counting call is made and no count is recorded for it.
C13_ParseFilename ==
    /\ cpc = "locate" =>
          \A p \in SomePromptFiles : parse_filename(p[1]) = <<p[2], p[3]>>
    /\ \A n \in PassedFiles :
          /\ \A p \in SomePromptFiles :
                n = p[1] =>
                    /\ parse_filename(n) = <<p[2], p[3]>>
                    /\ n \in CalledFiles
                    /\ <<p[2], p[3]>> \in DOMAIN results
          /\ HasNoFormatTag(n) =>
                /\ parse_filename(n)[2] = "unknown"
                /\ parse_filename(n)[1] \o Chars(".TXT") = Upper(n)
                /\ n \notin CalledFiles
                /\ \A k \in DOMAIN results : k # parse_filename(n)

\* A completed run over a directory that holds a file without a format tag
\* between recognized files: the file was passed without a call.
C13_Witness ==
    /\ cpc = "done"
    /\ \E n \in PassedFiles :
          /\ HasNoFormatTag(n)
          /\ n \notin CalledFiles
          /\ \E i, j \in 1..Len(calls) :
                StrLess(calls[i].file, n) /\ StrLess(n, calls[j].file)
    /\ table # <<>>

\* C14: when a remote counting call fails for some prompt file, the error is
\* propagated and the whole run aborts: the failed call is the last call
\* made (no retry, no call for a later file), main has ended with the
\* exception, no summary or total table is produced, and no count (in
\* particular no 0) is recorded for the failed prompt.
C14_FailedCallAborts ==
    \A i \in 1..Len(calls) :
        calls[i].outcome = "failed" =>
            /\ i = Len(calls)
            /\ \A j \in 1..Len(calls) : calls[j].file = calls[i].file => j = i
            /\ cpc \in {"APIError", "AuthError"}
            /\ calls[i].file = prompt_files[file_idx]
            /\ parse_filename(calls[i].file) \notin DOMAIN results
            /\ table = <<>>
            /\ totals = NoTotals
            /\ data_only = <<>>

\* A run whose second call failed, with files left in the listing.
C14_Witness ==
    /\ cpc = "APIError"
    /\ Len(calls) = 2
    /\ calls[2].outcome = "failed"
    /\ calls[1].outcome = "ok"
    /\ file_idx < Len(prompt_files)
    /\ Cardinality(DOMAIN results) = 1

\* C15: in a run that completes, the remote counter is called exactly once
\* for each discovered prompt file with a recognized format and never for a
\* file with format "unknown"; the calls are issued one after another in
\* sorted filename order, each finishing before the next starts, and the
\* results map holds exactly one entry per (task, format) counted.
C15_SequentialCalls ==
    /\ \A i \in 1..Len(calls) : calls[i].outcome = "pending" => i = Len(calls)
    /\ cpc = "done" =>
          /\ CalledFiles = {n \in dir_files : ~HasNoFormatTag(n)}
          /\ Len(calls) = Cardinality(CalledFiles)
          /\ \A i \in 1..Len(calls) : calls[i].outcome = "ok"
          /\ \A i, j \in 1..Len(calls) :
                i < j => StrLess(calls[i].file, calls[j].file)
          /\ DOMAIN results = {parse_filename(n) : n \in CalledFiles}
          /\ Cardinality(DOMAIN results) = Len(calls)

\* A completed run with six calls and a file that was not sent.
C15_Witness ==
    /\ cpc = "done"
    /\ Len(calls) = 6
    /\ Cardinality(dir_files) = 7

\* The positions where main has ended.
CountEnded == cpc \in {"done", "exit_1", "APIError", "AuthError", "ZeroDivisionError"}

\* C16: on every exit path of main that created a temporary prompt
\* directory (normal completion, prompt-generation failure, no prompt files
\* found, counting-call failure), the temporary directory has been removed
\* by the time the process exits.
C16_TempDirRemoved ==
    (CountEnded /\ prompts_dir_arg = "none") => temp_dir = "removed"

\* C17: when the API credential is absent from the environment, main fails
\* at startup before any work begins: no temporary directory is created, the
\* prompt-generation subprocess is not launched and no prompt file is
\* discovered or read.
C17_CredentialCheckedFirst ==
    (cpc # "idle" /\ ~credential) =>
        /\ temp_dir = "none"
        /\ ~generated
        /\ prompt_files = <<>>
        /\ calls = <<>>
        /\ cpc \in {"locate", "AuthError"}

-----------------------------------------------------------------------------
(* Claims about validate_tokens.main, checked under SpecValidate, and about
   generate_charts.plot_token_savings, checked under SpecCharts *)

\* The float p is the rational n / d, d > 0.
RatIs(p, n, d) == p.den > 0 /\ p.num * d = n * p.den

\* p is (1 - x / y) * 100 when y is positive, and 0 when y is 0.
SavingsIs(p, x, y) ==
    IF y = 0 THEN p = IntVal(0) ELSE RatIs(p, (y - x) * 100, y)

\* The ratios of validate_tokens: no division by zero is raised, and each
\* savings ratio is (1 - x / y) * 100, or 0 when its denominator is 0.
C6_ValidateRatios ==
    /\ vpc # "ZeroDivisionError"
    /\ \A i \in 1..Len(vresults) :
          SavingsIs(vresults[i].data_savings_pct,
                    vresults[i].tl_data_tokens, vresults[i].json_data_tokens)
    /\ vpc = "done" =>
          /\ SavingsIs(report.total_data_savings,
                       SumField(vresults, "tl_data_tokens"),
                       SumField(vresults, "json_data_tokens"))
          /\ SavingsIs(report.total_input_savings,
                       SumField(vresults, "tl_tokens"),
                       SumField(vresults, "json_tokens"))

\* A report whose total JSON data tokens are 0 next to positive prompt totals.
C6_ValidateWitness ==
    /\ vpc = "done"
    /\ Len(vresults) = 2
    /\ SumField(vresults, "json_data_tokens") = 0
    /\ report.total_data_savings = IntVal(0)
    /\ report.total_input_savings.num > 0

\* The ratios of plot_token_savings: no division by zero is raised, and a
\* bar whose (provider, json) sum is 0 has the defined value 0.
C6_ChartRatios ==
    /\ gpc # "ZeroDivisionError"
    /\ gpc = "done" =>
          \A g \in 1..Len(bars) : \A i \in 1..Len(bars[g]) :
              LET tokens == domain_data[DomainList(domain_data)[i]].input_tokens
                  key    == <<savings_groups[g].provider, "json">>
              IN  (key \in DOMAIN tokens /\ tokens[key] = 0)
                      => bars[g][i] = IntVal(0)

\* C6: every ratio computation of the pipeline yields a defined zero and
\* never raises when its denominator is zero: the per-task and total savings
\* of validate_tokens and the per-domain token-savings ratios of
\* plot_token_savings, for any domain data with a (provider, json) sum of 0.
C6_DivisionGuard == C6_ValidateRatios /\ C6_ChartRatios

\* C7: the weighted total data-only savings is computed from the sum of the
\* TL data tokens and the sum of the JSON data tokens over all processed
\* tasks, (1 - sum(tlData) / sum(jsonData)) * 100 (0 when the JSON sum is
\* 0), not from the per-task percentages.
C7_WeightedTotal ==
    vpc = "done" =>
        SavingsIs(report.total_data_savings,
                  SumField(vresults, "tl_data_tokens"),
                  SumField(vresults, "json_data_tokens"))

\* The per-task percentages of the processed tasks.
PerTaskPcts == [i \in 1..Len(vresults) |-> vresults[i].data_savings_pct]

\* Three processed tasks whose weighted total is neither the mean nor the
\* median of the per-task percentages.
C7_Witness ==
    /\ vpc = "done"
    /\ Len(vresults) = 3
    /\ report.total_data_savings # Mean(PerTaskPcts)
    /\ report.total_data_savings # report.median_savings
    /\ report.total_data_savings.num > 0

\* The orders of 1..n.
Orders(n) == {p \in [1..n -> 1..n] : \A i, j \in 1..n : p[i] = p[j] => i = j}

\* m is the median of the floats vs: the middle one in a non-decreasing
\* order when their number is odd, the mean of the two middle ones when even.
MedianIs(m, vs) ==
    LET n == Len(vs)
    IN  \E p \in Orders(n) :
          /\ \A i, j \in 1..n : i < j => RatLe(vs[p[i]], vs[p[j]])
          /\ IF n % 2 = 1 THEN m = vs[p[(n + 1) \div 2]]
             ELSE LET a == vs[p[n \div 2]]
                      b == vs[p[n \div 2 + 1]]
                  IN  /\ m.den > 0
                      /\ m.num * 2 * a.den * b.den
                            = (a.num * b.den + b.num * a.den) * m.den

\* The per-task percentage of a result, from its data tokens.
ExpectedPct(r) ==
    IF r.json_data_tokens > 0
    THEN Rat((r.json_data_tokens - r.tl_data_tokens) * 100, r.json_data_tokens)
    ELSE IntVal(0)

\* The constructed case: two processed tasks with data tokens TL/JSON of
\* 1/2 and 90/100.
IsExample ==
    /\ Len(vresults) = 2
    /\ {<<vresults[i].tl_data_tokens, vresults[i].json_data_tokens>> : i \in 1..2}
          = {<<1, 2>>, <<90, 100>>}

\* Two processed tasks have different sizes.
DifferentSizes ==
    \E i, j \in 1..Len(vresults) :
        vresults[i].json_data_tokens # vresults[j].json_data_tokens

\* C8 as amended: the reported median savings is the median of the per-task
\* data-savings percentages (middle value for an odd number of processed
\* tasks, mean of the two middle values for an even number), reported
\* alongside the weighted total; in the constructed case the median is 30%
\* and the weighted total (1 - 91/102) * 100.
C8_Median ==
    vpc = "done" =>
        /\ MedianIs(report.median_savings,
                    [i \in 1..Len(vresults) |-> ExpectedPct(vresults[i])])
        /\ IsExample =>
              /\ report.median_savings = IntVal(30)
              /\ RatIs(report.total_data_savings, (102 - 91) * 100, 102)
              /\ report.median_savings # report.total_data_savings

\* C8 as stated: the same, and for tasks of different sizes the two values
\* differ.
C8_Original ==
    /\ C8_Median
    /\ (vpc = "done" /\ DifferentSizes) =>
          report.median_savings # report.total_data_savings

C8_Witness ==
    /\ vpc = "done"
    /\ IsExample
    /\ report.median_savings = IntVal(30)

\* A report over three tasks with three different percentages.
C8_WitnessOdd ==
    /\ vpc = "done"
    /\ Len(vresults) = 3
    /\ Cardinality(Range(PerTaskPcts)) = 3
    /\ vresults[2].data_savings_pct # report.median_savings

\* The openai count of task t, 0 when there is none.
OpenAICount(t) ==
    IF t \in DOMAIN api_tokens /\ "openai" \in DOMAIN api_tokens[t]
    THEN api_tokens[t]["openai"] ELSE 0

\* The two totals the verdict compares.
MeasuredTotal == SumField(vresults, "tl_tokens")

ReportedTotal == SumOver([t \in Range(TASK_IDS) |-> OpenAICount(t)], TASK_IDS)

\* C9: the verdict compares the measured total and the API-reported total:
\* PASS when their absolute relative difference is <= 1%, MARGINAL when it
\* is > 1% and <= 5%, FAIL otherwise; exactly 1.0% is PASS, 3.0% MARGINAL,
\* 6.0% FAIL.  The relative difference is the zero-guarded ratio: it is 0
\* when the API-reported total is 0.  No verdict is printed without API
\* counts.
C9_Verdict ==
    vpc = "done" =>
        LET d == Abs(MeasuredTotal - ReportedTotal)
        IN  /\ report.total_tl = MeasuredTotal
            /\ IF api_tokens = EmptyDict THEN report.verdict = "none"
               ELSE /\ report.api_total = ReportedTotal
                    /\ report.verdict =
                         IF ReportedTotal = 0 THEN "PASS"
                         ELSE IF d * 100 <= ReportedTotal THEN "PASS"
                         ELSE IF d * 100 <= 5 * ReportedTotal THEN "MARGINAL"
                         ELSE "FAIL"
            /\ (ReportedTotal > 0 /\ d * 100 = ReportedTotal)
                  => report.verdict = "PASS"
            /\ (ReportedTotal > 0 /\ d * 100 = 3 * ReportedTotal)
                  => report.verdict = "MARGINAL"
            /\ (ReportedTotal > 0 /\ d * 100 = 6 * ReportedTotal)
                  => report.verdict = "FAIL"

\* A pair of totals differing by exactly 1.0%, reported PASS.
C9_Witness ==
    /\ vpc = "done"
    /\ ReportedTotal > 0
    /\ Abs(MeasuredTotal - ReportedTotal) * 100 = ReportedTotal
    /\ report.verdict = "PASS"

\* A pair differing by exactly 3.0%, reported MARGINAL.
C9_WitnessMarginal ==
    /\ vpc = "done"
    /\ ReportedTotal > 0
    /\ Abs(MeasuredTotal - ReportedTotal) * 100 = 3 * ReportedTotal
    /\ report.verdict = "MARGINAL"

\* A pair differing by exactly 6.0%, reported FAIL.
C9_WitnessFail ==
    /\ vpc = "done"
    /\ ReportedTotal > 0
    /\ Abs(MeasuredTotal - ReportedTotal) * 100 = 6 * ReportedTotal
    /\ report.verdict = "FAIL"

\* The tasks skipped as MISSING.
MissingTasks == {vrows[i].task_id : i \in {j \in 1..Len(vrows) : vrows[j].missing}}

\* C18: for every subset of the TASK_IDS whose prompt files are missing (all
\* of them included), main treats each missing task as a non-fatal skip and
\* still terminates normally, with a totals row and a summary computed over
\* the tasks that were present.
C18_MissingTasksSkipped ==
    /\ vpc \in {"idle", "tasks", "done"}
    /\ vpc = "done" =>
          /\ Len(vrows) = Len(TASK_IDS)
          /\ {vresults[i].task_id : i \in 1..Len(vresults)}
                = Range(TASK_IDS) \ MissingTasks
          /\ report.total_tl = SumField(vresults, "tl_tokens")
          /\ report.total_json = SumField(vresults, "json_tokens")

-----------------------------------------------------------------------------
(* Claims about count_tokens.extract_prompt, checked under SpecExtract *)

\* The marker occurs somewhere in the text.
HasMarker(text) ==
    \E i \in 1..Len(text) :
        /\ i + Len(PROMPT_MARKER) - 1 <= Len(text)
        /\ [j \in 1..Len(PROMPT_MARKER) |-> text[i + j - 1]] = PROMPT_MARKER

\* C11: extract_prompt applied to a file whose text does not contain the
\* marker "=== PROMPT ===" returns the full file content unchanged and does
\* not fail.
C11_NoMarkerFallback ==
    /\ epc \in {"call", "returned"}
    /\ (epc = "returned" /\ ~HasMarker(file_text)) => prompt = file_text

\* A marker-free file that starts with a newline and holds a line cut short
\* of the marker, returned as it is.
C11_Witness ==
    /\ epc = "returned"
    /\ ~HasMarker(file_text)
    /\ Len(file_text) > Len(PROMPT_MARKER)
    /\ file_text[1] = "\n"
    /\ prompt = file_text

\* C12: for a file made of a metadata header of arbitrary lines, a line that
\* is exactly the marker, zero or more blank lines and the prompt body,
\* extract_prompt returns exactly the body, whatever the header lines contain.
C12_BodyAfterMarkerLine ==
    epc = "returned" =>
        \A h \in Headers, k \in 0..MaxBlankLines, b \in Bodies :
            file_text = PromptFileText(h, k, b) => prompt = b

-----------------------------------------------------------------------------
(* Claims about load_from_results_dir *)

\* The groups of the well-formed rows among rows, in the order of the rows.
WellFormedFields(rows) ==
    LET kept == SelectSeq(rows, LAMBDA r : r.wellformed)
    IN  <<>> \o [i \in 1..Len(kept) |-> kept[i].fields]

\* C19: parsing a results document never aborts because of the content of a
\* row: a row of the wrong arity, with an unquoted string or with a malformed
\* number such as 0.9.5 or "." is skipped, and the well-formed rows of the
\* section are still returned.
C19_MalformedRowsSkipped ==
    /\ lpc \in {"idle", "load", "done", "FileNotFoundError"}
    /\ (lpc = "done" /\ doc.comparisons_heading) =>
           /\ response_rows = WellFormedFields(doc.responses)
           /\ analysis_rows = WellFormedFields(doc.analysis)

\* C20: each section runs from its start marker to the start marker of the
\* next section, or to the end of the document when that marker is absent:
\* every well-formed row in between is parsed, a last row that ends at the
\* final character of the document included, and no row outside is.
C20_SectionBounds ==
    lpc = "done" =>
        /\ response_rows = WellFormedFields(doc.responses)
        /\ analysis_rows = WellFormedFields(doc.analysis)

\* The sum of an integer-valued function over a set of its arguments.
RECURSIVE SumAt(_, _)
SumAt(f, idx) ==
    IF idx = {} THEN 0
    ELSE LET i == CHOOSE j \in idx : TRUE IN f[i] + SumAt(f, idx \ {i})

\* The sum of a float-valued function over a set of its arguments.
RECURSIVE RatSumAt(_, _)
RatSumAt(f, idx) ==
    IF idx = {} THEN IntVal(0)
    ELSE LET i == CHOOSE j \in idx : TRUE IN RatAdd(f[i], RatSumAt(f, idx \ {i}))

\* The task ID without its numeric suffix: without the digits it ends in and
\* the dash before them.
PrefixOf(task_id) ==
    LET tail_digits == {k \in 0..Len(task_id) :
                           \A j \in Len(task_id) - k + 1..Len(task_id) :
                               task_id[j] \in Digits}
        k == CHOOSE n \in tail_digits : \A m \in tail_digits : m <= n
        rest == SubSeq(task_id, 1, Len(task_id) - k)
    IN  IF rest # <<>> /\ rest[Len(rest)] = "-" THEN SubSeq(rest, 1, Len(rest) - 1)
        ELSE rest

\* The domain the fixed table gives a prefix, or the prefix itself.
DomainOfPrefix(prefix) ==
    IF \E i \in 1..Len(TASK_PREFIX_TO_DOMAIN) : TASK_PREFIX_TO_DOMAIN[i][1] = prefix
    THEN TASK_PREFIX_TO_DOMAIN[CHOOSE i \in 1..Len(TASK_PREFIX_TO_DOMAIN) :
                                   TASK_PREFIX_TO_DOMAIN[i][1] = prefix][2]
    ELSE prefix

\* The rows among rows that belong to the domain and key of the i-th.
SameBucket(rows, i) ==
    {j \in 1..Len(rows) :
        /\ DomainOfPrefix(PrefixOf(rows[j][1])) = DomainOfPrefix(PrefixOf(rows[i][1]))
        /\ rows[j][2] = rows[i][2]
        /\ rows[j][3] = rows[i][3]}

\* The mean of the four score components of a parsed analysis_results row.
MeanOfFour(row) ==
    RatDiv(RatSumAt([k \in 4..7 |-> FloatOf(row[k])], 4..7), 4)

\* C21: for every (domain, provider, format) key the result holds, as
\* input_tokens, the sum of the input tokens of the parsed responses rows of
\* the domain and key and, as accuracy, the mean of the average scores of the
\* parsed analysis_results rows of the domain and key.
C21_DomainRollups ==
    lpc = "done" =>
        /\ \A i \in 1..Len(response_rows) :
               LET domain == DomainOfPrefix(PrefixOf(response_rows[i][1]))
                   key    == <<response_rows[i][2], response_rows[i][3]>>
                   bucket == SameBucket(response_rows, i)
               IN  /\ domain \in DOMAIN loaded
                   /\ key \in DOMAIN loaded[domain].input_tokens
                   /\ loaded[domain].input_tokens[key] =
                          SumAt([j \in bucket |-> IntOf(response_rows[j][4])], bucket)
        /\ \A i \in 1..Len(analysis_rows) :
               LET domain == DomainOfPrefix(PrefixOf(analysis_rows[i][1]))
                   key    == <<analysis_rows[i][2], analysis_rows[i][3]>>
                   bucket == SameBucket(analysis_rows, i)
               IN  /\ domain \in DOMAIN loaded
                   /\ key \in DOMAIN loaded[domain].accuracy
                   /\ loaded[domain].accuracy[key] =
                          RatDiv(RatSumAt([j \in bucket |-> MeanOfFour(analysis_rows[j])],
                                          bucket),
                                 Cardinality(bucket))

\* C22: the domain of a task is the table's entry for the task ID without
\* its numeric suffix; a task whose prefix is not in the table forms a domain
\* named after the prefix, and that domain is in the result with its tokens.
C22_UnmappedPrefixDomain ==
    lpc = "done" =>
        \A i \in 1..Len(response_rows) :
            LET prefix == PrefixOf(response_rows[i][1])
                domain == DomainOfPrefix(prefix)
            IN  /\ domain \in DOMAIN domain_tokens
                /\ domain \in DOMAIN loaded
                /\ loaded[domain].input_tokens = domain_tokens[domain]

\* The rows of the example, as parsed, and their keys.
ExampleTlRow ==
    <<Chars("FIN-001"), Chars("anthropic"), Chars("tl"),
      Chars("0.95"), Chars("0.94"), Chars("0.96"), Chars("0.93")>>

ExampleJsonRow ==
    <<Chars("FIN-001"), Chars("anthropic"), Chars("json"),
      Chars("0.95"), Chars("0.95"), Chars("0.95"), Chars("0.94")>>

\* The average scores recorded for the parsed rows equal to row, in the list
\* of the domain Finance under the row's key; ValueError stands for a score
\* that is not in that list.
RecordedScores(row) ==
    LET key     == <<row[2], row[3]>>
        finance == Chars("Finance")
        of_key  == {j \in 1..Len(analysis_rows) :
                       <<analysis_rows[j][2], analysis_rows[j][3]>> = key}
    IN  IF of_key = {} THEN {}
        ELSE IF finance \in DOMAIN domain_scores /\ key \in DOMAIN domain_scores[finance]
                /\ Len(domain_scores[finance][key]) = Cardinality(of_key)
        THEN {domain_scores[finance][key][Cardinality({k \in of_key : k <= j})] :
                 j \in {k \in of_key : analysis_rows[k] = row}}
        ELSE {ValueError}

\* (a - b) / b * 100 on floats, b # 0.
RatPctDiff(a, b) == Rat((a.num * b.den - b.num * a.den) * 100, a.den * b.num)

\* C23: the average score of an analysis_results row is the mean of its four
\* components: the example rows yield 0.945 and 0.9475, and the tl-vs-json
\* percentage difference of these averages is (0.945 - 0.9475) / 0.9475 * 100,
\* which rounds to -0.26.
C23_AverageScore ==
    lpc = "done" =>
        /\ \A i \in 1..Len(analysis_rows) :
               /\ analysis_rows[i] = ExampleTlRow =>
                      RecordedScores(ExampleTlRow) = {Rat(945, 1000)}
               /\ analysis_rows[i] = ExampleJsonRow =>
                      RecordedScores(ExampleJsonRow) = {Rat(9475, 10000)}
        /\ \A tl \in RecordedScores(ExampleTlRow), json \in RecordedScores(ExampleJsonRow) :
               LET pct == RatPctDiff(tl, json)
               IN  /\ ~Raised(tl) /\ ~Raised(json) /\ json.num # 0
                   /\ pct = RatPctDiff(Rat(945, 1000), Rat(9475, 10000))
                   /\ RatLe(Rat(-265, 1000), pct)
                   /\ RatLe(pct, Rat(-255, 1000))
                   /\ pct # Rat(-265, 1000)

\* Both rows of the example parsed from one document.
C23_Witness ==
    /\ lpc = "done"
    /\ analysis_rows = <<ExampleTlRow, ExampleJsonRow>>
    /\ RecordedScores(ExampleTlRow) = {Rat(945, 1000)}
    /\ RecordedScores(ExampleJsonRow) = {Rat(9475, 10000)}

-----------------------------------------------------------------------------
(* Claims about parse_api_tokens, checked under SpecParse *)

\* The document with the rows of its responses section in the order p.
Reordered(d, p) ==
    [responses |-> <<>> \o [i \in 1..Len(d.responses) |-> d.responses[p[i]]],
     later |-> d.later]

\* C24: the aggregates do not depend on the order in which the rows of the
\* results document are processed: for every permutation of the rows of the
\* responses section, parse_api_tokens returns the same API-reported counts.
C24_OrderIndependent ==
    apc = "done" =>
        \A p \in Orders(Len(api_doc.responses)) :
            parse_api_tokens(ApiDocText(Reordered(api_doc, p))) = parsed_tokens

\* C25: the count recorded for a task and the provider openai is the input
\* tokens of the task's openai TL-format row of the responses section,
\* whatever rows of other formats or of other sections the document holds.
C25_OpenAITlRow ==
    apc = "done" =>
        \A i \in 1..Len(api_doc.responses) :
            LET r == api_doc.responses[i]
            IN  (r.provider = Chars("openai") /\ r.fmt = "tl") =>
                    /\ r.task_id \in DOMAIN parsed_tokens
                    /\ r.provider \in DOMAIN parsed_tokens[r.task_id]
                    /\ parsed_tokens[r.task_id][r.provider] = r.input_tokens

-----------------------------------------------------------------------------
(* Claims about the aggregate validation, checked under SpecValidate *)

\* The processed tasks that have an openai count: the tasks both totals can
\* cover.
ComparedResults ==
    {i \in 1..Len(vresults) : HasOpenAI(api_tokens, vresults[i].task_id)}

\* C26: the two totals of the aggregate validation cover the same tasks: a
\* task adds its API-reported count to api_total only if its measured TL
\* count is in total_tl, so a MISSING task or a task without an openai count
\* changes neither the aggregate difference nor the verdict.
C26_SameTasksCompared ==
    (vpc = "done" /\ api_tokens # EmptyDict) =>
        LET measured == SumAt([i \in ComparedResults |-> vresults[i].tl_tokens],
                              ComparedResults)
            reported == SumAt([i \in ComparedResults |->
                                  api_tokens[vresults[i].task_id]["openai"]],
                              ComparedResults)
        IN  /\ report.api_total = reported
            /\ report.diff_pct = AggregateDiffPct(measured, reported)
            /\ report.verdict = Verdict(AggregateDiffPct(measured, reported))

\* C27: the verdict is PASS only when there is an API-reported total to
\* compare against: with no openai count for any listed task and a positive
\* measured total, the verdict printed is not PASS.
C27_NoPassWithoutApiTotal ==
    (vpc = "done" /\ ReportedTotal = 0 /\ MeasuredTotal > 0) =>
        report.verdict # "PASS"

-----------------------------------------------------------------------------
(* A further claim about split_instruction_and_data, checked under SpecSplit *)

\* C28: the split isolates a minimal payload: two non-empty data parts differ
\* in their first characters and in their last characters; and whenever the
\* overlap guard reduces the suffix length, the data part of the shorter
\* prompt is empty and that of the longer prompt has the length by which the
\* two prompts differ.
C28_MinimalPayload ==
    spc = "returned" =>
        /\ (split.tl_data # <<>> /\ split.json_data # <<>>) =>
               /\ split.tl_data[1] # split.json_data[1]
               /\ split.tl_data[Len(split.tl_data)]
                      # split.json_data[Len(split.json_data)]
        /\ split.suffix_len < split.raw_suffix =>
               /\ Len(tl_prompt) <= Len(json_prompt) =>
                      /\ split.tl_data = <<>>
                      /\ Len(split.json_data) = Len(json_prompt) - Len(tl_prompt)
               /\ Len(json_prompt) <= Len(tl_prompt) =>
                      /\ split.json_data = <<>>
                      /\ Len(split.tl_data) = Len(tl_prompt) - Len(json_prompt)

\* Two data parts of different lengths between a shared prefix and a shared
\* suffix.
C28_Witness ==
    /\ spc = "returned"
    /\ split.prefix_len > 0
    /\ split.suffix_len > 0
    /\ Len(split.tl_data) > 0
    /\ Len(split.json_data) > Len(split.tl_data)
    /\ split.tl_data[1] # split.json_data[1]

-----------------------------------------------------------------------------
(* A further claim about count_tokens.main, checked under SpecCount *)

\* The data-only value of format f for task t.
DataOnlyValue(t, f) == CountOr0(t, f) - MinPerTask(results, t)

\* C29: in the data-only estimate, for every task the data-only value of
\* every format is non-negative and is 0 for at least one format, so each
\* format's data-only total is non-negative; the estimate is printed only
\* when every format has a positive total and the JSON data-only total is
\* positive.
C29_DataOnlyNonNegative ==
    cpc = "done" =>
        LET task_ids == SortedTaskIds(results)
        IN  /\ \A t \in Range(task_ids) :
                   /\ \A f \in Range(FORMATS) : DataOnlyValue(t, f) >= 0
                   /\ \E f \in Range(FORMATS) : DataOnlyValue(t, f) = 0
            /\ \A f \in Range(FORMATS) : DataTokens(results, task_ids, f) >= 0
            /\ \A i \in 1..Len(data_only) :
                   /\ data_only[i].fmt_data >= 0
                   /\ data_only[i].json_data > 0
                   /\ data_only[i].json_data = DataTokens(results, task_ids, "json")
                   /\ \A f \in Range(FORMATS) : totals[f] > 0

\* An estimate printed over a task that lacks a format, whose data-only
\* value is 0 for that format and positive for another.
C29_Witness ==
    /\ cpc = "done"
    /\ Len(data_only) = 2
    /\ \E t \in Range(SortedTaskIds(results)), f, g \in Range(FORMATS) :
          /\ <<t, f>> \notin DOMAIN results
          /\ DataOnlyValue(t, f) = 0
          /\ DataOnlyValue(t, g) > 0
    /\ \E i \in 1..Len(data_only) : data_only[i].fmt_data = 0

-----------------------------------------------------------------------------
(* A further claim about the prompt extractors, checked under SpecExtract *)

\* C30: the two prompt extractors implement the same contract: for every
\* file text, with the marker absent or present and followed by zero, one,
\* two or more newlines, both return the same prompt text and neither raises.
C30_ExtractorsAgree ==
    /\ epc \in {"call", "returned"}
    /\ vepc \in {"call", "returned"}
    /\ (epc = "returned" /\ vepc = "returned") => validate_prompt = prompt

====
